---------------------------- MODULE Spec2Model ----------------------------
(***************************************************************************)
(* A model of the duplicate detection engine of claude-memory-system       *)
(* (src/deduplication_engine.py): text normalisation, the four similarity  *)
(* metrics and their composite, the greedy leader clustering of            *)
(* find_duplicates and the transactional resolution of resolve_duplicates; *)
(* of its checkpoint filter (src/checkpoint_filter.py) and of the history  *)
(* file of its effectiveness monitor (src/effectiveness_monitor.py).       *)
(*                                                                         *)
(* A text is a sequence of one-character strings.  A score is an exact     *)
(* fraction <<numerator, denominator>> in lowest terms; weights and the    *)
(* threshold are counted in hundredths.  Floating-point rounding is not    *)
(* modelled.                                                               *)
(***************************************************************************)
EXTENDS Integers, Sequences, FiniteSets, TLC

(***************************************************************************)
(* Bounds of the model.                                                    *)
(***************************************************************************)
\* the longest context, in characters, around a volatile substring
MaxFrags == 3
\* the longest text, in characters, handed to calculate_similarity
MaxLen == 3
\* the most rows of the table find_duplicates reads
MaxRecords == 3
\* the latest creation time of a row of a resolution batch
MaxTime == 2
\* the rows of the table a resolution batch runs on
MaxBatch == 4
\* the most calls of resolve_duplicates on one analysis that return a plan
MaxCalls == 2
\* the most writes of other agents during one run of find_duplicates
MaxWrites == 1
\* the most members of a group handed to _calculate_frequency
MaxGroup == 4
\* the latest day of a timestamp handed to _calculate_frequency
MaxDay == 3
\* the greatest history_limit of the monitor's configuration
MaxLimit == 3
\* the most runs of run_effectiveness_monitoring
MaxRuns == 4

(***************************************************************************)
(* Characters: Python's str.lower, \d, \s and \w on the ASCII range.       *)
(***************************************************************************)
UpperCase ==
    << "A", "B", "C", "D", "E", "F", "G", "H", "I", "J", "K", "L", "M",
       "N", "O", "P", "Q", "R", "S", "T", "U", "V", "W", "X", "Y", "Z" >>

LowerCase ==
    << "a", "b", "c", "d", "e", "f", "g", "h", "i", "j", "k", "l", "m",
       "n", "o", "p", "q", "r", "s", "t", "u", "v", "w", "x", "y", "z" >>

Digits == {"0", "1", "2", "3", "4", "5", "6", "7", "8", "9"}

Range(s) == {s[k] : k \in 1..Len(s)}

IsDigit(c) == c \in Digits

IsSpace(c) == c \in {" ", "\t", "\n", "\r"}

IsWord(c) == c \in Range(UpperCase) \cup Range(LowerCase) \cup Digits \cup {"_"}

LowerChar(c) ==
    IF \E k \in 1..26 : UpperCase[k] = c
    THEN LowerCase[CHOOSE k \in 1..26 : UpperCase[k] = c]
    ELSE c

\* str.lower()
Lower(s) == [k \in 1..Len(s) |-> LowerChar(s[k])]

RECURSIVE LStrip(_)
LStrip(s) ==
    IF s # <<>> /\ IsSpace(s[1]) THEN LStrip(Tail(s)) ELSE s

RECURSIVE RStrip(_)
RStrip(s) ==
    IF s # <<>> /\ IsSpace(s[Len(s)]) THEN RStrip(SubSeq(s, 1, Len(s) - 1)) ELSE s

\* str.strip()
Strip(s) == RStrip(LStrip(s))

(***************************************************************************)
(* The regular expressions of normalize_text.  MatchLen(p, s, i) is the    *)
(* length of the match of pattern p that starts at position i of s, 0      *)
(* when there is none (no pattern matches the empty string).               *)
(***************************************************************************)
AllDigits(s, lo, hi) == \A k \in lo..hi : IsDigit(s[k])

\* the number of characters from position i on that satisfy the class
RECURSIVE DigitRun(_, _)
DigitRun(s, i) ==
    IF i <= Len(s) /\ IsDigit(s[i]) THEN 1 + DigitRun(s, i + 1) ELSE 0

RECURSIVE SpaceRun(_, _)
SpaceRun(s, i) ==
    IF i <= Len(s) /\ IsSpace(s[i]) THEN 1 + SpaceRun(s, i + 1) ELSE 0

\* r'\d{4}-\d{2}-\d{2}'
MatchDate(s, i) ==
    IF /\ i + 9 <= Len(s)
       /\ AllDigits(s, i, i + 3) /\ s[i + 4] = "-"
       /\ AllDigits(s, i + 5, i + 6) /\ s[i + 7] = "-"
       /\ AllDigits(s, i + 8, i + 9)
    THEN 10 ELSE 0

\* r'\d{2}:\d{2}:\d{2}'
MatchTime(s, i) ==
    IF /\ i + 7 <= Len(s)
       /\ AllDigits(s, i, i + 1) /\ s[i + 2] = ":"
       /\ AllDigits(s, i + 3, i + 4) /\ s[i + 5] = ":"
       /\ AllDigits(s, i + 6, i + 7)
    THEN 8 ELSE 0

\* r'ID:\s*\d+' (case-sensitive: the pattern is compiled without flags)
MatchId(s, i) ==
    IF i + 2 <= Len(s) /\ s[i] = "I" /\ s[i + 1] = "D" /\ s[i + 2] = ":"
    THEN LET sp == SpaceRun(s, i + 3)
             dg == DigitRun(s, i + 3 + sp)
         IN  IF dg > 0 THEN 3 + sp + dg ELSE 0
    ELSE 0

\* r'#\d+'
MatchHash(s, i) ==
    IF s[i] = "#" /\ DigitRun(s, i + 1) > 0 THEN 1 + DigitRun(s, i + 1) ELSE 0

patterns == << "date", "time", "id", "hash" >>

MatchLen(p, s, i) ==
    CASE p = "date" -> MatchDate(s, i)
      [] p = "time" -> MatchTime(s, i)
      [] p = "id"   -> MatchId(s, i)
      [] p = "hash" -> MatchHash(s, i)

\* re.sub(pattern, '', s): the leftmost non-overlapping matches are removed
RECURSIVE ReSubFrom(_, _, _)
ReSubFrom(p, s, i) ==
    IF i > Len(s) THEN <<>>
    ELSE LET k == MatchLen(p, s, i)
         IN  IF k > 0 THEN ReSubFrom(p, s, i + k)
                      ELSE <<s[i]>> \o ReSubFrom(p, s, i + 1)

ReSub(p, s) == ReSubFrom(p, s, 1)

\* the loop over patterns, in list order
RECURSIVE RemovePatterns(_, _)
RemovePatterns(s, k) ==
    IF k > Len(patterns) THEN s
    ELSE RemovePatterns(ReSub(patterns[k], s), k + 1)

\* re.sub(r'\s+', ' ', s)
RECURSIVE CollapseFrom(_, _)
CollapseFrom(s, i) ==
    IF i > Len(s) THEN <<>>
    ELSE LET k == SpaceRun(s, i)
         IN  IF k > 0 THEN <<" ">> \o CollapseFrom(s, i + k)
                      ELSE <<s[i]>> \o CollapseFrom(s, i + 1)

CollapseWhitespace(s) == CollapseFrom(s, 1)

\* re.sub(r'[^\w\s]', '', s)
StripPunctuation(s) == SelectSeq(s, LAMBDA c : IsWord(c) \/ IsSpace(c))

normalize_text(text) ==
    LET lowered   == Strip(Lower(text))
        removed   == RemovePatterns(lowered, 1)
        collapsed == CollapseWhitespace(removed)
        cleaned   == StripPunctuation(collapsed)
    IN  Strip(cleaned)

(***************************************************************************)
(* Fractions.                                                              *)
(***************************************************************************)
RECURSIVE GCD(_, _)
GCD(m, n) == IF n = 0 THEN m ELSE GCD(n, m % n)

\* the fraction n/d (d > 0) in lowest terms
Frac(n, d) == LET g == GCD(n, d) IN << n \div g, d \div g >>

One == << 1, 1 >>

Zero == << 0, 1 >>

Max(S) == CHOOSE x \in S : \A y \in S : y <= x

Min(S) == CHOOSE x \in S : \A y \in S : x <= y

(***************************************************************************)
(* difflib.SequenceMatcher(None, a, b).ratio().  No character is junk      *)
(* (isjunk is None, and the automatic junk heuristic needs 200 characters).*)
(* Windows are half-open as in difflib, over 1-based positions: a window   *)
(* alo, ahi holds the positions alo .. ahi-1.                              *)
(***************************************************************************)
\* a[i .. i+k-1] = b[j .. j+k-1], inside the windows
IsMatch(a, b, i, j, k, ahi, bhi) ==
    /\ i + k <= ahi
    /\ j + k <= bhi
    /\ \A d \in 0..(k - 1) : a[i + d] = b[j + d]

\* find_longest_match: the longest common block of the two windows; of the
\* longest, the one that starts earliest in a; of those, earliest in b.
\* << i, j, 0 >> with i = alo, j = blo when nothing matches.
find_longest_match(a, b, alo, ahi, blo, bhi) ==
    LET blocks == { m \in (alo..(ahi - 1)) \X (blo..(bhi - 1)) \X (1..(ahi - alo)) :
                        IsMatch(a, b, m[1], m[2], m[3], ahi, bhi) }
    IN  IF blocks = {} THEN << alo, blo, 0 >>
        ELSE LET k == Max({m[3] : m \in blocks})
                 i == Min({m[1] : m \in {x \in blocks : x[3] = k}})
                 j == Min({m[2] : m \in {x \in blocks : x[3] = k /\ x[1] = i}})
             IN  << i, j, k >>

\* get_matching_blocks, summed: the total size of the matching blocks found
\* by splitting around the longest match and recursing left and right
RECURSIVE MatchedSize(_, _, _, _, _, _)
MatchedSize(a, b, alo, ahi, blo, bhi) ==
    LET m == find_longest_match(a, b, alo, ahi, blo, bhi)
        i == m[1]
        j == m[2]
        k == m[3]
    IN  IF k = 0 THEN 0
        ELSE k
             + (IF alo < i /\ blo < j
                THEN MatchedSize(a, b, alo, i, blo, j) ELSE 0)
             + (IF i + k < ahi /\ j + k < bhi
                THEN MatchedSize(a, b, i + k, ahi, j + k, bhi) ELSE 0)

\* ratio(): 2.0 * matches / length, 1.0 when both are empty
SequenceRatio(a, b) ==
    LET length == Len(a) + Len(b)
    IN  IF length = 0 THEN One
        ELSE Frac(2 * MatchedSize(a, b, 1, Len(a) + 1, 1, Len(b) + 1), length)

(***************************************************************************)
(* Levenshtein.distance: insert, delete, substitute at unit cost.          *)
(***************************************************************************)
LevenshteinDistance(a, b) ==
    LET d[i \in 0..Len(a), j \in 0..Len(b)] ==
            IF i = 0 THEN j
            ELSE IF j = 0 THEN i
            ELSE Min({ d[i - 1, j] + 1,
                       d[i, j - 1] + 1,
                       d[i - 1, j - 1] + (IF a[i] = b[j] THEN 0 ELSE 1) })
    IN  d[Len(a), Len(b)]

(***************************************************************************)
(* str.split(): the words of a text, split at runs of whitespace.          *)
(***************************************************************************)
RECURSIVE WordLen(_, _)
WordLen(s, i) ==
    IF i <= Len(s) /\ ~IsSpace(s[i]) THEN 1 + WordLen(s, i + 1) ELSE 0

RECURSIVE WordsFrom(_, _)
WordsFrom(s, i) ==
    IF i > Len(s) THEN {}
    ELSE LET k == WordLen(s, i)
         IN  IF k = 0 THEN WordsFrom(s, i + 1)
             ELSE {SubSeq(s, i, i + k - 1)} \cup WordsFrom(s, i + k)

\* set(s.split())
Words(s) == WordsFrom(s, 1)

(***************************************************************************)
(* The state.                                                              *)
(***************************************************************************)
VARIABLES
    config,             \* the loaded configuration: a dict of the optional keys
    db,                 \* the observations table, committed: id -> [content, created_at]
    pc,                 \* where the running operation stands
    text1, text2,       \* the texts handed to normalize_text / calculate_similarity
    norm1, norm2,       \* what normalize_text returned for text1 and for text2
    similarity,         \* what calculate_similarity(text1, text2) returned
    records,            \* find_duplicates: the rows fetched, newest first
    i,                  \* find_duplicates: the position of the outer loop
    processed_ids,      \* find_duplicates: the ids already assigned
    duplicate_groups,   \* find_duplicates: the groups emitted so far
    analysis,           \* find_duplicates: the dict returned
    writes,             \* the writes other agents made since find_duplicates read
    analysis_result,    \* resolve_duplicates: the analysis handed in
    strategy, dry_run,  \* resolve_duplicates: its other two arguments
    g,                  \* resolve_duplicates: the position of the loop over the groups
    pending,            \* the open transaction's uncommitted writes: id -> content
    resolution_actions, \* resolve_duplicates: the actions planned so far
    result,             \* resolve_duplicates: the dict returned
    db0,                \* the table as it was when resolve_duplicates was called
    updates,            \* the UPDATE statements executed by the call
    commits,            \* the commits performed by the call
    calls,              \* the plans returned by the calls so far on this analysis
    observations,       \* analyze_checkpoint_redundancy: the rows fetched, newest first
    checkpoint_groups,  \* analyze_checkpoint_redundancy: signature -> its checkpoints
    regular_observations, \* analyze_checkpoint_redundancy: the other rows
    redundancy,         \* analyze_checkpoint_redundancy: the dict returned
    filtering,          \* apply_checkpoint_filtering: the dict returned
    checkpoint_group,   \* the group handed to _calculate_frequency
    frequency,          \* what _calculate_frequency returned for it
    metrics_history_file, \* the monitor's history file: missing, unreadable or a list
    clock,              \* the monitor's clock: the timestamp of the latest run
    report              \* run_effectiveness_monitoring: the dict returned

vars ==
    << config, db, pc, text1, text2, norm1, norm2, similarity, records, i,
       processed_ids, duplicate_groups, analysis, writes, analysis_result, strategy,
       dry_run, g, pending, resolution_actions, result, db0, updates, commits,
       calls, observations, checkpoint_groups, regular_observations, redundancy,
       filtering, checkpoint_group, frequency, metrics_history_file, clock, report >>

checkpointVars ==
    << observations, checkpoint_groups, regular_observations, redundancy >>

filterVars == << filtering >>

frequencyVars == << checkpoint_group, frequency >>

monitorVars == << metrics_history_file, clock, report >>

\* the variables of the checkpoint filter's other operations and of the monitor
toolVars == << filterVars, frequencyVars, monitorVars >>

normVars == << text1, text2, norm1, norm2 >>

simVars == << similarity >>

findVars == << records, i, processed_ids, duplicate_groups, analysis, writes >>

resolveVars ==
    << analysis_result, strategy, dry_run, g, pending, resolution_actions,
       result, db0, updates, commits, calls >>

None == "None"

\* the empty dict, the empty table, the empty transaction
Empty == << >>

(***************************************************************************)
(* __init__: the threshold and the weights, with their defaults.  Weights  *)
(* and threshold are in hundredths.                                        *)
(***************************************************************************)
DefaultThreshold == 85

DefaultWeights ==
    [ exact_match |-> 30, sequence_similarity |-> 25,
      levenshtein_similarity |-> 25, jaccard_similarity |-> 20 ]

\* dict.get(key, default)
Get(dict, key, default) == IF key \in DOMAIN dict THEN dict[key] ELSE default

similarity_threshold == Get(config, "similarity_threshold", DefaultThreshold)

weights == Get(config, "algorithm_weights", DefaultWeights)

(***************************************************************************)
(* calculate_similarity                                                    *)
(***************************************************************************)
\* weight * metric, the weight in hundredths
Weighted(w, x) == Frac(w * x[1], 100 * x[2])

Plus(x, y) == Frac(x[1] * y[2] + y[1] * x[2], x[2] * y[2])

\* x >= y
AtLeast(x, y) == x[1] * y[2] >= y[1] * x[2]

ExactMatch(norm_a, norm_b) == IF norm_a = norm_b THEN One ELSE Zero

\* LevenshteinSimilarity with the fallback for two empty texts giving 0
LevenshteinEmptyZero(norm_a, norm_b) ==
    LET max_len == Max({Len(norm_a), Len(norm_b)})
    IN  IF max_len = 0 THEN Zero
        ELSE Frac(max_len - LevenshteinDistance(norm_a, norm_b), max_len)

LevenshteinSimilarity(norm_a, norm_b) ==
    LET max_len == Max({Len(norm_a), Len(norm_b)})
    IN  IF max_len = 0 THEN One
        ELSE Frac(max_len - LevenshteinDistance(norm_a, norm_b), max_len)

\* JaccardSimilarity with the two empty-set tests in the wrong order
JaccardEmptyFirst(norm_a, norm_b) ==
    LET words1 == Words(norm_a)
        words2 == Words(norm_b)
    IN  IF words1 = {} \/ words2 = {} THEN Zero
        ELSE Frac(Cardinality(words1 \cap words2), Cardinality(words1 \cup words2))

JaccardSimilarity(norm_a, norm_b) ==
    LET words1 == Words(norm_a)
        words2 == Words(norm_b)
    IN  IF words1 = {} /\ words2 = {} THEN One
        ELSE IF words1 = {} \/ words2 = {} THEN Zero
        ELSE Frac(Cardinality(words1 \cap words2), Cardinality(words1 \cup words2))

\* the dict calculate_similarity returns, under the weights w
Scores(w, a, b) ==
    LET norm_a == normalize_text(a)
        norm_b == normalize_text(b)
        exact_match == ExactMatch(norm_a, norm_b)
        sequence_similarity == SequenceRatio(norm_a, norm_b)
        levenshtein_similarity == LevenshteinSimilarity(norm_a, norm_b)
        jaccard_similarity == JaccardSimilarity(norm_a, norm_b)
    IN  [ exact_match |-> exact_match,
          sequence_similarity |-> sequence_similarity,
          levenshtein_similarity |-> levenshtein_similarity,
          jaccard_similarity |-> jaccard_similarity,
          composite_similarity |->
              Plus(Plus(Plus(Weighted(w.exact_match, exact_match),
                             Weighted(w.sequence_similarity, sequence_similarity)),
                        Weighted(w.levenshtein_similarity, levenshtein_similarity)),
                   Weighted(w.jaccard_similarity, jaccard_similarity)) ]

(***************************************************************************)
(* The configurations of the model: each optional key present or missing.  *)
(* A configured weight set is positive and sums to 1, the configuration    *)
(* contract of the composite.                                              *)
(***************************************************************************)
ThresholdChoices == {30, 100}

WeightChoices ==
    { [ exact_match |-> 40, sequence_similarity |-> 20,
        levenshtein_similarity |-> 20, jaccard_similarity |-> 20 ] }

\* a configured weight set without its jaccard_similarity entry
PartialWeights ==
    [ exact_match |-> 40, sequence_similarity |-> 30, levenshtein_similarity |-> 30 ]

Configs ==
    {Empty}
    \cup { [k \in {"similarity_threshold"} |-> t] : t \in ThresholdChoices }
    \cup { [k \in {"algorithm_weights"} |-> w] : w \in WeightChoices \cup {PartialWeights} }
    \cup { [ similarity_threshold |-> t, algorithm_weights |-> w ] :
              t \in ThresholdChoices, w \in WeightChoices }

(***************************************************************************)
(* The texts of the rows of the table.                                     *)
(***************************************************************************)
ContentList ==
    << << "a", " ", "b" >>,
       << "A", " ", "b", "." >>,
       << "a", " ", "c" >>,
       << "b", " ", "c" >> >>

Contents == Range(ContentList)

calculate_similarity(a, b) == Scores(weights, a, b)

\* IsDuplicate with > for >=
IsDuplicateStrict(content1, content2) ==
    ~AtLeast(Frac(similarity_threshold, 100),
             calculate_similarity(content1, content2).composite_similarity)

\* IsDuplicate with the comparison turned round
IsDuplicateInverted(content1, content2) ==
    AtLeast(Frac(similarity_threshold, 100),
            calculate_similarity(content1, content2).composite_similarity)

\* similarity['composite_similarity'] >= self.similarity_threshold
IsDuplicate(content1, content2) ==
    AtLeast(calculate_similarity(content1, content2).composite_similarity,
            Frac(similarity_threshold, 100))

(***************************************************************************)
(* normalize_text applied: a text, and the same text with one volatile     *)
(* substring replaced by another instance of the same pattern.             *)
(***************************************************************************)
Strings(alphabet, n) == UNION { [1..k -> alphabet] : k \in 0..n }

PlainChars == {"a", " ", ".", "1"}

\* two instances of each volatile pattern (and of none)
VolatilePairs ==
    { << "none", << >>, << >> >>,
      << "date", << "2", "0", "2", "4", "-", "0", "1", "-", "0", "1" >>,
                 << "2", "0", "2", "4", "-", "0", "1", "-", "0", "2" >> >>,
      << "time", << "1", "0", ":", "0", "0", ":", "0", "1" >>,
                 << "1", "0", ":", "0", "0", ":", "0", "2" >> >>,
      << "id",   << "I", "D", ":", " ", "7" >>,
                 << "I", "D", ":", " ", "1", "2" >> >>,
      << "hash", << "#", "7" >>,
                 << "#", "1", "2" >> >> }

NoScore ==
    [ exact_match |-> Zero, sequence_similarity |-> Zero,
      levenshtein_similarity |-> Zero, jaccard_similarity |-> Zero,
      composite_similarity |-> Zero ]

NoAnalysis ==
    [ total_records |-> 0, duplicate_groups |-> << >>,
      duplicate_records |-> 0, duplicate_rate |-> Zero ]

NoResult == [ action |-> None ]

\* the variables of the operations that have not run
FindIdle ==
    /\ records = << >>
    /\ i = 1
    /\ processed_ids = {}
    /\ duplicate_groups = << >>
    /\ analysis = NoAnalysis
    /\ writes = 0

ResolveIdle ==
    /\ strategy = None
    /\ dry_run = TRUE
    /\ g = 1
    /\ pending = Empty
    /\ resolution_actions = << >>
    /\ result = NoResult
    /\ db0 = Empty
    /\ updates = 0
    /\ commits = 0
    /\ calls = << >>

CheckpointIdle ==
    /\ observations = << >>
    /\ checkpoint_groups = Empty
    /\ regular_observations = << >>
    /\ redundancy = Empty

FilterIdle == filtering = NoResult

FrequencyIdle ==
    /\ checkpoint_group = << >>
    /\ frequency = None

\* the history file when it does not exist, when it is not JSON, and when
\* it holds a list
NoFile == [ kind |-> "missing", content |-> << >> ]

Unreadable == [ kind |-> "unreadable", content |-> << >> ]

JsonFile(list) == [ kind |-> "json", content |-> list ]

MonitorIdle ==
    /\ metrics_history_file = NoFile
    /\ clock = 0
    /\ report = Empty

ToolsIdle == FilterIdle /\ FrequencyIdle /\ MonitorIdle

TextIdle ==
    /\ text1 = << >>
    /\ text2 = << >>
    /\ norm1 = << >>
    /\ norm2 = << >>
    /\ similarity = NoScore

NormInit ==
    /\ config = Empty
    /\ db = Empty
    /\ pc = "normalize"
    /\ \E pre \in Strings(PlainChars, MaxFrags), suf \in Strings(PlainChars, MaxFrags - 1),
          v \in VolatilePairs :
            /\ text1 = pre \o v[2] \o suf
            /\ text2 = pre \o v[3] \o suf
    /\ norm1 = << >>
    /\ norm2 = << >>
    /\ similarity = NoScore
    /\ FindIdle
    /\ analysis_result = NoAnalysis
    /\ ResolveIdle
    /\ CheckpointIdle
    /\ ToolsIdle

Normalize ==
    /\ pc = "normalize"
    /\ norm1' = normalize_text(text1)
    /\ norm2' = normalize_text(text2)
    /\ pc' = "normalized"
    /\ UNCHANGED << checkpointVars, toolVars, config, db, text1, text2, similarity, findVars,
                    resolveVars >>

SpecNorm == NormInit /\ [][Normalize]_vars

(***************************************************************************)
(* calculate_similarity applied to two texts.                              *)
(***************************************************************************)
SimChars == {"a", "b", " "}

SimInit ==
    /\ config \in {c \in Configs : "similarity_threshold" \notin DOMAIN c}
    /\ db = Empty
    /\ pc = "score"
    /\ text1 \in Strings(SimChars, MaxLen)
    /\ text2 \in Strings(SimChars, MaxLen)
    /\ norm1 = << >>
    /\ norm2 = << >>
    /\ similarity = NoScore
    /\ FindIdle
    /\ analysis_result = NoAnalysis
    /\ ResolveIdle
    /\ CheckpointIdle
    /\ ToolsIdle

\* self.weights[...] finds each of the four weights
WeightsComplete == DOMAIN DefaultWeights \subseteq DOMAIN weights

Score ==
    /\ pc = "score"
    /\ WeightsComplete
    /\ similarity' = calculate_similarity(text1, text2)
    /\ pc' = "scored"
    /\ UNCHANGED << checkpointVars, toolVars, config, db, normVars, findVars, resolveVars >>

\* self.weights[...] raises KeyError: the composite is not computed and
\* calculate_similarity returns nothing
ScoreFails ==
    /\ pc = "score"
    /\ ~WeightsComplete
    /\ pc' = "raised"
    /\ UNCHANGED << checkpointVars, toolVars, config, db, normVars, simVars, findVars,
                    resolveVars >>

SimNext == Score \/ ScoreFails

SpecSim == SimInit /\ [][SimNext]_vars

(***************************************************************************)
(* find_duplicates.  A fetched row is the tuple << id, content,            *)
(* created_at >>; the code's record[0], record[1], record[2] are r[1],     *)
(* r[2], r[3] here.  The entity filter is applied by the store: db is the  *)
(* table the query selects from.                                           *)
(***************************************************************************)
\* In find_duplicates the creation times only order the rows: two times
\* give every order and every tie.
FindTimes == {1, 2}

Rows == [ content : Contents, created_at : FindTimes ]

\* The tables of the model.  Ids are numbered in creation order: the code
\* tests ids for equality only, so every table is one of these up to a
\* renaming of its ids.
Stores ==
    UNION { { t \in [1..n -> Rows] :
                \A x \in 1..(n - 1) : t[x].created_at <= t[x + 1].created_at } :
            n \in 0..MaxRecords }

Row(table, id) == << id, table[id].content, table[id].created_at >>

\* Orders for ORDER BY created_at ASC
OrdersAscending(table) ==
    LET n == Len(table)
    IN  { o \in [1..n -> 1..n] :
            /\ \A x, y \in 1..n : x # y => o[x] # o[y]
            /\ \A x \in 1..(n - 1) :
                  table[o[x]].created_at <= table[o[x + 1]].created_at }

\* ORDER BY created_at DESC: every order of the ids in which the creation
\* times never increase (the order of rows of equal time is the store's)
Orders(table) ==
    LET n == Len(table)
    IN  { o \in [1..n -> 1..n] :
            /\ \A x, y \in 1..n : x # y => o[x] # o[y]
            /\ \A x \in 1..(n - 1) :
                  table[o[x]].created_at >= table[o[x + 1]].created_at }

\* the weights are the defaults here; SpecSim varies them
FindInit ==
    /\ config \in {c \in Configs : "algorithm_weights" \notin DOMAIN c}
    /\ db \in Stores
    /\ pc = "start"
    /\ TextIdle
    /\ FindIdle
    /\ analysis_result = NoAnalysis
    /\ ResolveIdle
    /\ CheckpointIdle
    /\ ToolsIdle

\* cursor.execute(query); records = cursor.fetchall()
FindRead ==
    /\ pc = "start"
    /\ \E o \in Orders(db) :
          records' = [k \in 1..Len(db) |-> Row(db, o[k])]
    /\ duplicate_groups' = << >>
    /\ processed_ids' = {}
    /\ i' = 1
    /\ pc' = "find_loop"
    /\ UNCHANGED << checkpointVars, toolVars, config, db, normVars, simVars, analysis, writes,
                    resolveVars >>

\* Emit without the test of the group's size
EmitAlways(groups, current_group) ==
    Append(groups,
           [ group_id |-> Len(groups), records |-> current_group,
             count |-> Len(current_group) ])

\* Scan without the test of processed_ids
RECURSIVE ScanAll(_, _, _, _)
ScanAll(content1, j, current_group, processed) ==
    IF j > Len(records) THEN << current_group, processed >>
    ELSE LET record2 == records[j]
         IN  IF AtLeast(Scores(weights, content1, record2[2]).composite_similarity,
                        Frac(similarity_threshold, 100))
             THEN ScanAll(content1, j + 1, Append(current_group, record2),
                          processed \cup {record2[1]})
             ELSE ScanAll(content1, j + 1, current_group, processed)

\* Scan without processed_ids.add(id2)
RECURSIVE ScanForgetful(_, _, _, _)
ScanForgetful(content1, j, current_group, processed) ==
    IF j > Len(records) THEN << current_group, processed >>
    ELSE LET record2 == records[j]
         IN  IF record2[1] \in processed
             THEN ScanForgetful(content1, j + 1, current_group, processed)
             ELSE IF AtLeast(Scores(weights, content1, record2[2]).composite_similarity,
                             Frac(similarity_threshold, 100))
             THEN ScanForgetful(content1, j + 1, Append(current_group, record2), processed)
             ELSE ScanForgetful(content1, j + 1, current_group, processed)

\* Scan reading the text of each candidate from the table again
RECURSIVE ScanFromStore(_, _, _, _)
ScanFromStore(content1, j, current_group, processed) ==
    IF j > Len(records) THEN << current_group, processed >>
    ELSE LET record2 == records[j]
         IN  IF record2[1] \in processed
             THEN ScanFromStore(content1, j + 1, current_group, processed)
             ELSE IF AtLeast(Scores(weights, content1,
                                    db[record2[1]].content).composite_similarity,
                             Frac(similarity_threshold, 100))
             THEN ScanFromStore(content1, j + 1, Append(current_group, record2),
                                processed \cup {record2[1]})
             ELSE ScanFromStore(content1, j + 1, current_group, processed)

\* the inner loop from position j on: << current_group, processed_ids >>
RECURSIVE Scan(_, _, _, _)
Scan(content1, j, current_group, processed) ==
    IF j > Len(records) THEN << current_group, processed >>
    ELSE LET record2 == records[j]
         IN  IF record2[1] \in processed
             THEN Scan(content1, j + 1, current_group, processed)
             ELSE IF IsDuplicate(content1, record2[2])
             THEN Scan(content1, j + 1, Append(current_group, record2),
                       processed \cup {record2[1]})
             ELSE Scan(content1, j + 1, current_group, processed)

\* Group numbering the groups from 1
GroupOneBased(group_id, current_group) ==
    [ group_id |-> group_id + 1,
      records |-> current_group,
      count |-> Len(current_group) ]

\* The group dict.  Its similarity_scores (the scores of the leader against
\* each member, which nothing reads afterwards) are left out.
Group(group_id, current_group) ==
    [ group_id |-> group_id,
      records |-> current_group,
      count |-> Len(current_group) ]

\* if len(current_group) > 1: duplicate_groups.append(...)
Emit(groups, current_group) ==
    IF Len(current_group) > 1
    THEN Append(groups, Group(Len(groups), current_group))
    ELSE groups

\* an outer iteration on a row that is already assigned: continue
FindSkip ==
    /\ pc = "find_loop"
    /\ i <= Len(records)
    /\ records[i][1] \in processed_ids
    /\ i' = i + 1
    /\ UNCHANGED << checkpointVars, toolVars, config, db, pc, normVars, simVars, records,
                    processed_ids, duplicate_groups, analysis, writes, resolveVars >>

\* an outer iteration on an unassigned row: it leads a group
FindLeader ==
    /\ pc = "find_loop"
    /\ i <= Len(records)
    /\ records[i][1] \notin processed_ids
    /\ LET record1 == records[i]
           scan == Scan(record1[2], i + 1, << record1 >>, processed_ids)
       IN  /\ duplicate_groups' = Emit(duplicate_groups, scan[1])
           /\ processed_ids' = scan[2] \cup {record1[1]}
    /\ i' = i + 1
    /\ UNCHANGED << checkpointVars, toolVars, config, db, pc, normVars, simVars, records, analysis,
                    writes, resolveVars >>

RECURSIVE SumCounts(_)
SumCounts(groups) ==
    IF groups = << >> THEN 0 ELSE Head(groups).count + SumCounts(Tail(groups))

\* Analysis counting the members that are not leaders
AnalysisOfFollowers(total_records, groups) ==
    [ total_records |-> total_records,
      duplicate_groups |-> groups,
      duplicate_records |-> SumCounts(groups) - Len(groups),
      duplicate_rate |->
          IF total_records > 0
          THEN Frac((SumCounts(groups) - Len(groups)) * 100, total_records)
          ELSE Zero ]

\* the statistics and the dict returned
Analysis(total_records, groups) ==
    [ total_records |-> total_records,
      duplicate_groups |-> groups,
      duplicate_records |-> SumCounts(groups),
      duplicate_rate |->
          IF total_records > 0
          THEN Frac(SumCounts(groups) * 100, total_records)
          ELSE Zero ]

FindReturn ==
    /\ pc = "find_loop"
    /\ i > Len(records)
    /\ analysis' = Analysis(Len(records), duplicate_groups)
    /\ pc' = "analysed"
    /\ UNCHANGED << checkpointVars, toolVars, config, db, normVars, simVars, records, i,
                    processed_ids, duplicate_groups, writes, resolveVars >>

FindNext == FindRead \/ FindSkip \/ FindLeader \/ FindReturn

Spec == FindInit /\ [][FindNext]_vars

(***************************************************************************)
(* find_duplicates while other agents write to the table.  The rows were   *)
(* fetched by one statement; afterwards the engine works on the list.      *)
(***************************************************************************)
\* the tables of three rows of three different normalised texts
ConcurrentStores ==
    { t \in Stores :
        /\ Len(t) = 3
        /\ { normalize_text(t[id].content) : id \in 1..3 }
              = { normalize_text(c) : c \in Contents } }

ConcurrentInit ==
    /\ config = [ k \in {"similarity_threshold"} |-> 30 ]
    /\ db \in ConcurrentStores
    /\ pc = "start"
    /\ TextIdle
    /\ FindIdle
    /\ analysis_result = NoAnalysis
    /\ ResolveIdle
    /\ CheckpointIdle
    /\ ToolsIdle

\* Another agent commits a write while the clustering loop runs: it
\* changes the text of a row, or inserts a row.
ExternalWrite ==
    /\ pc = "find_loop"
    /\ writes < MaxWrites
    /\ \/ \E id \in DOMAIN db, c \in Contents :
             /\ c # db[id].content
             /\ db' = [db EXCEPT ![id].content = c]
       \/ \E c \in Contents :
             db' = Append(db, [ content |-> c, created_at |-> Max(FindTimes) ])
    /\ writes' = writes + 1
    /\ UNCHANGED << checkpointVars, toolVars, config, pc, normVars, simVars, records, i,
                    processed_ids, duplicate_groups, analysis, resolveVars >>

ConcurrentNext == FindNext \/ ExternalWrite

SpecConcurrent == ConcurrentInit /\ [][ConcurrentNext]_vars

(***************************************************************************)
(* resolve_duplicates.  The connection's transaction is `pending`: the     *)
(* rows it has written and not yet committed.  An UPDATE reads a row as    *)
(* the transaction sees it; commit makes the writes the table's; rollback  *)
(* drops them.  The updated_at column is not modelled.                     *)
(***************************************************************************)
DigitChars == << "0", "1", "2", "3", "4", "5", "6", "7", "8", "9" >>

\* str(n) of a natural number
RECURSIVE NumStr(_)
NumStr(n) ==
    IF n < 10 THEN << DigitChars[n + 1] >>
    ELSE NumStr(n \div 10) \o << DigitChars[(n % 10) + 1] >>

\* strftime('%Y-%m-%d %H:%M:%S'): time t is 00:00:00 of day t of January 2024
FormatTime(t) ==
    << "2", "0", "2", "4", "-", "0", "1", "-" >>
    \o (IF t < 10 THEN << "0" >> ELSE << >>) \o NumStr(t)
    \o << " ", "0", "0", ":", "0", "0", ":", "0", "0" >>

\* ' [DUPLICATE - KEPT ID: ' || id || ']'
KeptMarker(id) ==
    << " ", "[", "D", "U", "P", "L", "I", "C", "A", "T", "E", " ", "-", " ",
       "K", "E", "P", "T", " ", "I", "D", ":", " " >> \o NumStr(id) \o << "]" >>

\* ' [MERGED INTO ID: ' || id || ']'
MergedMarker(id) ==
    << " ", "[", "M", "E", "R", "G", "E", "D", " ", "I", "N", "T", "O", " ",
       "I", "D", ":", " " >> \o NumStr(id) \o << "]" >>

\* ' [DUPLICATE GROUP: ' || group_id || ']'
GroupMarker(group_id) ==
    << " ", "[", "D", "U", "P", "L", "I", "C", "A", "T", "E", " ",
       "G", "R", "O", "U", "P", ":", " " >> \o NumStr(group_id) \o << "]" >>

\* ", ".join(...)
RECURSIVE Join(_)
Join(parts) ==
    IF parts = << >> THEN << >>
    ELSE IF Len(parts) = 1 THEN parts[1]
    ELSE parts[1] \o << ",", " " >> \o Join(Tail(parts))

_merge_content(primary_record, secondary_records, now) ==
    LET merge_info ==
            << "\n", "[", "M", "E", "R", "G", "E", "D", " ", "f", "r", "o", "m", " " >>
            \o NumStr(Len(secondary_records))
            \o << " ", "d", "u", "p", "l", "i", "c", "a", "t", "e", "s", " ", "o", "n", " " >>
            \o FormatTime(now) \o << "]" >>
        dates_info ==
            << "\n", "[", "O", "r", "i", "g", "i", "n", "a", "l", " ",
               "d", "a", "t", "e", "s", ":", " " >>
            \o Join([k \in 1..Len(secondary_records) |->
                        FormatTime(secondary_records[k][3])])
            \o << "]" >>
    IN  primary_record[2] \o merge_info \o dates_info

\* MaxByCreatedAt keeping the last of the rows of the greatest created_at
MaxByCreatedAtLast(rows) ==
    LET latest == Max({rows[k][3] : k \in 1..Len(rows)})
    IN  rows[Max({k \in 1..Len(rows) : rows[k][3] = latest})]

\* max(records, key=lambda x: x[2]): the first row of the greatest created_at
MaxByCreatedAt(rows) ==
    LET latest == Max({rows[k][3] : k \in 1..Len(rows)})
    IN  rows[Min({k \in 1..Len(rows) : rows[k][3] = latest})]

\* [r for r in records if r[0] != record[0]]
Others(rows, record) == SelectSeq(rows, LAMBDA r : r[1] # record[1])

Ids(rows) == [k \in 1..Len(rows) |-> rows[k][1]]

Strategies == {"keep_latest", "merge", "flag_only", "archive"}

\* datetime.now(): the batch runs after every row was created
ClockReadings == {MaxTime + 1}

\* Statements with merge appending its annotation to the stored content
StatementsAppending(strat, group, now) ==
    LET rows == group.records
        latest_record == MaxByCreatedAt(rows)
        older_records == Others(rows, latest_record)
    IN  CASE strat = "keep_latest" ->
                [k \in 1..Len(older_records) |->
                    [ op |-> "append", id |-> older_records[k][1],
                      text |-> KeptMarker(latest_record[1]) ]]
          [] strat = "merge" ->
                << [ op |-> "append", id |-> latest_record[1],
                     text |-> _merge_content(<< latest_record[1], << >>, latest_record[3] >>,
                                             older_records, now) ] >>
                \o [k \in 1..Len(older_records) |->
                    [ op |-> "append", id |-> older_records[k][1],
                      text |-> MergedMarker(latest_record[1]) ]]
          [] strat = "flag_only" ->
                [k \in 1..Len(rows) |->
                    [ op |-> "append", id |-> rows[k][1],
                      text |-> GroupMarker(group.group_id) ]]
          [] OTHER -> << >>

\* The UPDATE statements a group gets under a strategy, in the order they
\* are executed: "append" is SET content = content || text, "set" is
\* SET content = text.
Statements(strat, group, now) ==
    LET rows == group.records
        latest_record == MaxByCreatedAt(rows)
        older_records == Others(rows, latest_record)
    IN  CASE strat = "keep_latest" ->
                [k \in 1..Len(older_records) |->
                    [ op |-> "append", id |-> older_records[k][1],
                      text |-> KeptMarker(latest_record[1]) ]]
          [] strat = "merge" ->
                << [ op |-> "set", id |-> latest_record[1],
                     text |-> _merge_content(latest_record, older_records, now) ] >>
                \o [k \in 1..Len(older_records) |->
                    [ op |-> "append", id |-> older_records[k][1],
                      text |-> MergedMarker(latest_record[1]) ]]
          [] strat = "flag_only" ->
                [k \in 1..Len(rows) |->
                    [ op |-> "append", id |-> rows[k][1],
                      text |-> GroupMarker(group.group_id) ]]
          [] OTHER -> << >>

\* Planned with group_size counting the rows whose stored text is still
\* the text that was analysed
PlannedFromStore(strat, group) ==
    LET rows == group.records
        latest_record == MaxByCreatedAt(rows)
        older_records == Others(rows, latest_record)
        group_size == Cardinality({k \in 1..Len(rows) : db[rows[k][1]].content = rows[k][2]})
    IN  CASE strat = "keep_latest" ->
                << [ action |-> "keep_latest", kept_id |-> latest_record[1],
                     marked_ids |-> Ids(older_records), group_size |-> group_size ] >>
          [] strat = "merge" ->
                << [ action |-> "merge", primary_id |-> latest_record[1],
                     secondary_ids |-> Ids(older_records), group_size |-> group_size ] >>
          [] strat = "flag_only" ->
                << [ action |-> "flag_only", flagged_ids |-> Ids(rows),
                     group_id |-> group.group_id, group_size |-> group_size ] >>
          [] OTHER -> << >>

\* the action planned for a group; none under an unrecognised strategy
\* (no branch of the if/elif chain is taken)
Planned(strat, group) ==
    LET rows == group.records
        latest_record == MaxByCreatedAt(rows)
        older_records == Others(rows, latest_record)
    IN  CASE strat = "keep_latest" ->
                << [ action |-> "keep_latest", kept_id |-> latest_record[1],
                     marked_ids |-> Ids(older_records), group_size |-> Len(rows) ] >>
          [] strat = "merge" ->
                << [ action |-> "merge", primary_id |-> latest_record[1],
                     secondary_ids |-> Ids(older_records), group_size |-> Len(rows) ] >>
          [] strat = "flag_only" ->
                << [ action |-> "flag_only", flagged_ids |-> Ids(rows),
                     group_id |-> group.group_id, group_size |-> Len(rows) ] >>
          [] OTHER -> << >>

\* the content of row id as the transaction with the writes p sees it
Visible(p, id) == IF id \in DOMAIN p THEN p[id] ELSE db[id].content

\* cursor.execute(UPDATE ... WHERE id = stmt.id): no row, no write
Execute(p, stmt) ==
    IF stmt.id \notin DOMAIN db THEN p
    ELSE [x \in DOMAIN p \cup {stmt.id} |->
            IF x = stmt.id
            THEN (IF stmt.op = "append" THEN Visible(p, x) \o stmt.text ELSE stmt.text)
            ELSE p[x]]

\* the first n statements executed, in order
RECURSIVE ExecuteAll(_, _, _)
ExecuteAll(p, stmts, n) ==
    IF n = 0 THEN p
    ELSE Execute(ExecuteAll(p, stmts, n - 1), stmts[n])

\* conn.commit()
Committed(table, p) ==
    [id \in DOMAIN table |->
        IF id \in DOMAIN p THEN [table[id] EXCEPT !.content = p[id]] ELSE table[id]]

RECURSIVE SumSizes(_)
SumSizes(actions) ==
    IF actions = << >> THEN 0 ELSE Head(actions).group_size + SumSizes(Tail(actions))

\* the call with nothing to resolve: it returns before it connects
ResolveNothing ==
    /\ pc = "analysed"
    /\ analysis_result.duplicate_groups = << >>
    /\ \E strat \in Strategies, dry \in BOOLEAN :
          /\ strategy' = strat
          /\ dry_run' = dry
    /\ result' = [ action |-> "no_duplicates_found" ]
    /\ db0' = db
    /\ pc' = "returned"
    /\ UNCHANGED << checkpointVars, toolVars, config, db, normVars, simVars, findVars, analysis_result, g,
                    pending, resolution_actions, updates, commits, calls >>

\* the call: conn = self.connect_db(); cursor = conn.cursor()
ResolveConnect ==
    /\ pc = "analysed"
    /\ analysis_result.duplicate_groups # << >>
    /\ \E strat \in Strategies, dry \in BOOLEAN :
          /\ strategy' = strat
          /\ dry_run' = dry
    /\ g' = 1
    /\ pending' = Empty
    /\ resolution_actions' = << >>
    /\ db0' = db
    /\ pc' = "resolve_loop"
    /\ UNCHANGED << checkpointVars, toolVars, config, db, normVars, simVars, findVars, analysis_result,
                    result, updates, commits, calls >>

\* connect_db raises: the call is outside the try block, the exception
\* leaves resolve_duplicates
ResolveConnectFails ==
    /\ pc = "analysed"
    /\ analysis_result.duplicate_groups # << >>
    /\ \E strat \in Strategies, dry \in BOOLEAN :
          /\ strategy' = strat
          /\ dry_run' = dry
    /\ db0' = db
    /\ pc' = "raised"
    /\ UNCHANGED << checkpointVars, toolVars, config, db, normVars, simVars, findVars, analysis_result, g,
                    pending, resolution_actions, result, updates, commits, calls >>

\* Issued with the flag_only branch missing its dry_run test
IssuedFlagging(dry, strat, group, now) ==
    IF dry /\ strat # "flag_only" THEN << >> ELSE Statements(strat, group, now)

\* if not dry_run: the statements of a group that are executed at all
Issued(dry, strat, group, now) ==
    IF dry THEN << >> ELSE Statements(strat, group, now)

\* one iteration of the loop over the groups, every statement succeeding
ResolveGroup ==
    /\ pc = "resolve_loop"
    /\ g <= Len(analysis_result.duplicate_groups)
    /\ LET group == analysis_result.duplicate_groups[g]
       IN  /\ \E now \in ClockReadings :
                LET stmts == Issued(dry_run, strategy, group, now)
                IN  /\ pending' = ExecuteAll(pending, stmts, Len(stmts))
                    /\ updates' = updates + Len(stmts)
           /\ resolution_actions' = resolution_actions \o Planned(strategy, group)
    /\ g' = g + 1
    /\ UNCHANGED << checkpointVars, toolVars, config, db, pc, normVars, simVars, findVars, analysis_result,
                    strategy, dry_run, result, db0, commits, calls >>

\* RolledBack on a connection that keeps what was executed
RolledBackPartly ==
    /\ db' = Committed(db, pending)
    /\ pending' = Empty
    /\ result' = [ action |-> "error" ]
    /\ pc' = "returned"

\* except Exception: conn.rollback(); return {'action': 'error', ...}
RolledBack ==
    /\ db' = db
    /\ pending' = Empty
    /\ result' = [ action |-> "error" ]
    /\ pc' = "returned"

\* an iteration in which the n-th statement of the group raises
ResolveGroupFails ==
    /\ pc = "resolve_loop"
    /\ g <= Len(analysis_result.duplicate_groups)
    /\ \E now \in ClockReadings :
          LET stmts == Issued(dry_run, strategy, analysis_result.duplicate_groups[g], now)
          IN  \E n \in 1..Len(stmts) : updates' = updates + n
    /\ RolledBack
    /\ UNCHANGED << checkpointVars, toolVars, config, normVars, simVars, findVars, analysis_result,
                    strategy, dry_run, g, resolution_actions, db0, commits, calls >>

\* the loop is over: commit (unless dry_run), close, return the plan
ResolveCommit ==
    /\ pc = "resolve_loop"
    /\ g > Len(analysis_result.duplicate_groups)
    /\ IF dry_run
       THEN UNCHANGED << db, commits >>
       ELSE /\ db' = Committed(db, pending)
            /\ commits' = commits + 1
    /\ pending' = Empty
    /\ result' =
          [ action |-> IF dry_run THEN "dry_run_completed" ELSE "resolution_applied",
            strategy |-> strategy,
            groups_processed |-> Len(analysis_result.duplicate_groups),
            records_affected |-> SumSizes(resolution_actions),
            resolution_actions |-> resolution_actions ]
    /\ calls' = Append(calls, [ strategy |-> strategy, dry_run |-> dry_run,
                                resolution_actions |-> resolution_actions ])
    /\ pc' = "returned"
    /\ UNCHANGED << checkpointVars, toolVars, config, normVars, simVars, findVars, analysis_result, strategy,
                    dry_run, g, resolution_actions, db0, updates >>

\* conn.commit() raises: nothing is committed, the except clause rolls back
ResolveCommitFails ==
    /\ pc = "resolve_loop"
    /\ g > Len(analysis_result.duplicate_groups)
    /\ ~dry_run
    /\ RolledBack
    /\ UNCHANGED << checkpointVars, toolVars, config, normVars, simVars, findVars, analysis_result,
                    strategy, dry_run, g, resolution_actions, db0, updates, commits,
                    calls >>

ResolveNext ==
    \/ ResolveNothing
    \/ ResolveConnect
    \/ ResolveConnectFails
    \/ ResolveGroup
    \/ ResolveGroupFails
    \/ ResolveCommit
    \/ ResolveCommitFails

(***************************************************************************)
(* A resolution batch on an analysis the caller hands in: any number of    *)
(* disjoint groups of two or more rows of the table, of any creation       *)
(* times.  Group k holds the next rows in id order.                        *)
(***************************************************************************)
BatchTimes == 1..MaxTime

\* the text of row id: the row texts in turn
ContentFor(id) == ContentList[((id - 1) % Len(ContentList)) + 1]

BatchStores ==
    { t \in [ 1..MaxBatch -> [ content : Contents, created_at : BatchTimes ] ] :
        \A id \in 1..MaxBatch : t[id].content = ContentFor(id) }

RECURSIVE SumSeq(_)
SumSeq(q) == IF q = << >> THEN 0 ELSE Head(q) + SumSeq(Tail(q))

\* the sizes of the groups of an analysis of n rows
GroupSizes(n) ==
    { q \in UNION { [1..k -> 2..n] : k \in 0..(n \div 2) } : SumSeq(q) <= n }

\* the groups of the given sizes over the rows of table
GroupsOf(table, sizes) ==
    [ k \in 1..Len(sizes) |->
        LET first == SumSeq(SubSeq(sizes, 1, k - 1)) + 1
        IN  Group(k - 1, [m \in 1..sizes[k] |-> Row(table, first + m - 1)]) ]

ResolveInit ==
    /\ config = Empty
    /\ db \in BatchStores
    /\ pc = "analysed"
    /\ TextIdle
    /\ FindIdle
    /\ \E sizes \in GroupSizes(MaxBatch) :
          analysis_result = Analysis(MaxBatch, GroupsOf(db, sizes))
    /\ ResolveIdle
    /\ CheckpointIdle
    /\ ToolsIdle

SpecResolve == ResolveInit /\ [][ResolveNext]_vars

(***************************************************************************)
(* resolve_duplicates called again and again on the analysis the caller    *)
(* holds, each call with the strategy and the dry_run flag of its choice.  *)
(***************************************************************************)
\* the previous call has ended; the next one starts from the table as it is
ResolveAgain ==
    /\ pc \in {"returned", "raised"}
    /\ Len(calls) < MaxCalls
    /\ pc' = "analysed"
    /\ strategy' = None
    /\ dry_run' = TRUE
    /\ g' = 1
    /\ pending' = Empty
    /\ resolution_actions' = << >>
    /\ result' = NoResult
    /\ db0' = Empty
    /\ updates' = 0
    /\ commits' = 0
    /\ UNCHANGED << checkpointVars, toolVars, config, db, normVars, simVars, findVars,
                    analysis_result, calls >>

ReplanNext == ResolveNext \/ ResolveAgain

SpecReplan == ResolveInit /\ [][ReplanNext]_vars

(***************************************************************************)
(* main(): find_duplicates, then resolve_duplicates on the analysis it     *)
(* returned.  The table holds the first rows of a resolution batch.        *)
(***************************************************************************)
PipelineStores ==
    UNION { { t \in [ 1..n -> [ content : Contents, created_at : BatchTimes ] ] :
                \A id \in 1..n : t[id].content = ContentFor(id) } :
            n \in 0..MaxBatch }

PipelineInit ==
    /\ config \in {Empty, [k \in {"similarity_threshold"} |-> 30]}
    /\ db \in PipelineStores
    /\ pc = "start"
    /\ TextIdle
    /\ FindIdle
    /\ analysis_result = NoAnalysis
    /\ ResolveIdle
    /\ CheckpointIdle
    /\ ToolsIdle

\* results = engine.find_duplicates(...): the analysis is returned and is
\* the analysis_result of the resolve_duplicates call that follows
MainAnalyze ==
    /\ pc = "find_loop"
    /\ i > Len(records)
    /\ analysis' = Analysis(Len(records), duplicate_groups)
    /\ analysis_result' = analysis'
    /\ pc' = "analysed"
    /\ UNCHANGED << checkpointVars, toolVars, config, db, normVars, simVars, records, i,
                    processed_ids, duplicate_groups, writes, strategy, dry_run, g,
                    pending, resolution_actions, result, db0, updates, commits, calls >>

PipelineNext == FindRead \/ FindSkip \/ FindLeader \/ MainAnalyze \/ ResolveNext

SpecPipeline == PipelineInit /\ [][PipelineNext]_vars

(***************************************************************************)
(* main() while other agents write to the table between the analysis and   *)
(* its resolution: find_duplicates has closed its connection and           *)
(* resolve_duplicates opens its own.                                       *)
(***************************************************************************)
StaleInit ==
    /\ config \in { [ k \in {"similarity_threshold"} |-> t ] : t \in ThresholdChoices }
    /\ db \in ConcurrentStores
    /\ pc = "start"
    /\ TextIdle
    /\ FindIdle
    /\ analysis_result = NoAnalysis
    /\ ResolveIdle
    /\ CheckpointIdle
    /\ ToolsIdle

\* Another agent commits a new text for a row after find_duplicates
\* returned and before resolve_duplicates connects.
WriteBetween ==
    /\ pc = "analysed"
    /\ writes < MaxWrites
    /\ \E id \in DOMAIN db, c \in Contents :
          /\ c # db[id].content
          /\ db' = [db EXCEPT ![id].content = c]
    /\ writes' = writes + 1
    /\ UNCHANGED << checkpointVars, toolVars, config, pc, normVars, simVars, records, i,
                    processed_ids, duplicate_groups, analysis, resolveVars >>

StaleNext ==
    FindRead \/ FindSkip \/ FindLeader \/ MainAnalyze \/ WriteBetween \/ ResolveNext

SpecStale == StaleInit /\ [][StaleNext]_vars

(***************************************************************************)
(* The checkpoint filter (src/checkpoint_filter.py).  Its regular          *)
(* expressions are sequences of tokens: a character class, or one literal  *)
(* character, repeated between lo and hi times (hi = 0: without limit).    *)
(* Every quantifier is greedy and gives back one character at a time when  *)
(* the rest of the pattern fails, as in Python's re.                       *)
(***************************************************************************)
\* cls+
OneOrMore(cls) == << [ cls |-> cls, ch |-> "", lo |-> 1, hi |-> 0 ] >>

\* cls*
ZeroOrMore(cls) == << [ cls |-> cls, ch |-> "", lo |-> 0, hi |-> 0 ] >>

\* cls{n}
Times(cls, n) == << [ cls |-> cls, ch |-> "", lo |-> n, hi |-> n ] >>

\* the characters of text, one after the other
Lit(text) == [ k \in 1..Len(text) |-> [ cls |-> "lit", ch |-> text[k], lo |-> 1, hi |-> 1 ] ]

InClass(t, c, ignorecase) ==
    CASE t.cls = "w" -> IsWord(c)
      [] t.cls = "s" -> IsSpace(c)
      [] t.cls = "d" -> IsDigit(c)
      [] t.cls = "lit" -> IF ignorecase THEN LowerChar(c) = LowerChar(t.ch) ELSE c = t.ch

\* the number of characters from position pos on that token t accepts
RECURSIVE ClassRun(_, _, _, _)
ClassRun(t, s, pos, ignorecase) ==
    IF pos <= Len(s) /\ InClass(t, s[pos], ignorecase)
    THEN 1 + ClassRun(t, s, pos + 1, ignorecase)
    ELSE 0

\* MatchEnd: the position after the match of tokens k.. that starts at
\* position pos of s, 0 when there is none.  TryLen: the same with token k
\* taking n characters or, failing that, fewer.
RECURSIVE MatchEnd(_, _, _, _, _)
RECURSIVE TryLen(_, _, _, _, _, _)
MatchEnd(tokens, k, s, pos, ignorecase) ==
    IF k > Len(tokens) THEN pos
    ELSE LET t == tokens[k]
             run == ClassRun(t, s, pos, ignorecase)
         IN  TryLen(tokens, k, s, pos, IF t.hi = 0 THEN run ELSE Min({run, t.hi}),
                    ignorecase)

TryLen(tokens, k, s, pos, n, ignorecase) ==
    IF n < tokens[k].lo THEN 0
    ELSE LET e == MatchEnd(tokens, k + 1, s, pos + n, ignorecase)
         IN  IF e # 0 THEN e ELSE TryLen(tokens, k, s, pos, n - 1, ignorecase)

\* re.search(pattern, s) is not None
Search(tokens, s, ignorecase) ==
    \E pos \in 1..Len(s) : MatchEnd(tokens, 1, s, pos, ignorecase) # 0

\* re.sub(pattern, repl, s): the leftmost non-overlapping matches replaced
RECURSIVE SubstituteFrom(_, _, _, _)
SubstituteFrom(tokens, repl, s, pos) ==
    IF pos > Len(s) THEN << >>
    ELSE LET e == MatchEnd(tokens, 1, s, pos, FALSE)
         IN  IF e # 0 THEN repl \o SubstituteFrom(tokens, repl, s, e)
                      ELSE << s[pos] >> \o SubstituteFrom(tokens, repl, s, pos + 1)

Substitute(tokens, repl, s) == SubstituteFrom(tokens, repl, s, 1)

\* \d{4}-\d{2}-\d{2}
DateTokens ==
    Times("d", 4) \o Lit(<< "-" >>) \o Times("d", 2) \o Lit(<< "-" >>) \o Times("d", 2)

\* \d{2}:\d{2}:\d{2}
TimeTokens ==
    Times("d", 2) \o Lit(<< ":" >>) \o Times("d", 2) \o Lit(<< ":" >>) \o Times("d", 2)

\* \w+\s+\w+\s+\d+\s+\d+:\d+:\d+\s+\w+\s+\d+
TimestampTokens ==
    OneOrMore("w") \o OneOrMore("s") \o OneOrMore("w") \o OneOrMore("s")
    \o OneOrMore("d") \o OneOrMore("s")
    \o OneOrMore("d") \o Lit(<< ":" >>) \o OneOrMore("d") \o Lit(<< ":" >>) \o OneOrMore("d")
    \o OneOrMore("s") \o OneOrMore("w") \o OneOrMore("s") \o OneOrMore("d")

\* the six patterns of __init__, used when the configuration has none
DefaultCheckpointPatterns ==
    << Lit(<< "C", "H", "E", "C", "K", "P", "O", "I", "N", "T" >>) \o OneOrMore("s") \o TimestampTokens
       \o Lit(<< ":" >>) \o OneOrMore("s") \o Lit(<< "a", "u", "t", "o", "-", "s", "y", "n", "c" >>),
       Lit(<< "S", "i", "n", "c", "r", "o", "n", "i", "z", "a", "c", "i",
               "Ã", "³", "n", " ", "a", "u", "t", "o", "m", "Ã", "¡", "t",
               "i", "c", "a", " ", "c", "a", "d", "a", " " >>)
       \o OneOrMore("d") \o Lit(<< " ", "m", "i", "n" >>),
       Lit(<< "a", "u", "t", "o", "-", "s", "y", "n", "c", " ", "-", " ",
               "S", "i", "n", "c", "r", "o", "n", "i", "z", "a", "c", "i",
               "Ã", "³", "n", " ", "a", "u", "t", "o", "m", "Ã", "¡", "t",
               "i", "c", "a" >>),
       Lit(<< "S", "Y", "N", "C", ":" >>) \o ZeroOrMore("s") \o DateTokens \o OneOrMore("s") \o TimeTokens,
       Lit(<< "C", "h", "e", "c", "k", "p", "o", "i", "n", "t" >>) \o OneOrMore("s") \o OneOrMore("d")
       \o OneOrMore("s") \o Lit(<< "c", "o", "m", "p", "l", "e", "t", "e", "d" >>),
       Lit(<< "A", "u", "t", "o", "-", "s", "a", "v", "e" >>) \o OneOrMore("s")
       \o Lit(<< "a", "t" >>) \o OneOrMore("s") \o DateTokens >>

\* the three patterns of get_default_config, used when there is no
\* configuration file
ConfiguredCheckpointPatterns == SubSeq(DefaultCheckpointPatterns, 1, 3)

checkpoint_patterns == Get(config, "checkpoint_patterns", DefaultCheckpointPatterns)

is_checkpoint_observation(text) ==
    \E k \in 1..Len(checkpoint_patterns) : Search(checkpoint_patterns[k], text, TRUE)

\* hashlib.md5(...).hexdigest(): the digest of a text is a tag of the text;
\* no two texts of the model have the same digest
md5(text) == << "md5", text >>

generate_checkpoint_signature(text) ==
    LET stamped == Substitute(TimestampTokens,
                              << "T", "I", "M", "E", "S", "T", "A", "M", "P" >>, text)
        dated == Substitute(DateTokens \o OneOrMore("s") \o TimeTokens,
                            << "D", "A", "T", "E", "T", "I", "M", "E" >>, stamped)
        timed == Substitute(TimeTokens, << "T", "I", "M", "E" >>, dated)
        numbered == Substitute(OneOrMore("d"), << "N", "U", "M" >>, timed)
    IN  md5(numbered)

\* the texts of the rows the checkpoint filter runs on
CheckpointTexts ==
    { << "A", "u", "t", "o", "-", "s", "a", "v", "e", " ", "a", "t", " ",
         "2", "0", "2", "4", "-", "0", "1", "-", "0", "1" >>,
      << "A", "u", "t", "o", "-", "s", "a", "v", "e", " ", "a", "t", " ",
         "2", "0", "2", "4", "-", "0", "1", "-", "0", "2" >>,
      << "a", "u", "t", "o", "-", "s", "a", "v", "e", " ", "a", "t", " ",
         "2", "0", "2", "4", "-", "0", "1", "-", "0", "1" >>,
      << "C", "H", "E", "C", "K", "P", "O", "I", "N", "T", " ", "M", "o",
         "n", " ", "J", "a", "n", " ", "1", " ", "1", "0", ":", "0", "0",
         ":", "0", "0", " ", "U", "T", "C", " ", "2", "0", "2", "4", ":",
         " ", "a", "u", "t", "o", "-", "s", "y", "n", "c" >>,
      << "M", "e", "e", "t", "i", "n", "g", " ", "7" >> }

\* The tables of the checkpoint filter: row id was created on day id.
CheckpointStores ==
    UNION { { [ id \in 1..n |-> [ content |-> c[id], created_at |-> id ] ] :
                c \in [ 1..n -> CheckpointTexts ] } :
            n \in 0..MaxRecords }

CheckpointInit ==
    /\ config \in {Empty, [ k \in {"checkpoint_patterns"} |-> ConfiguredCheckpointPatterns ]}
    /\ db \in CheckpointStores
    /\ pc = "analyze_start"
    /\ TextIdle
    /\ FindIdle
    /\ analysis_result = NoAnalysis
    /\ ResolveIdle
    /\ CheckpointIdle
    /\ ToolsIdle

\* cursor.execute(query); observations = cursor.fetchall()
AnalyzeRead ==
    /\ pc = "analyze_start"
    /\ \E o \in Orders(db) :
          observations' = [ k \in 1..Len(db) |->
                              [ id |-> o[k], content |-> db[o[k]].content,
                                created_at |-> db[o[k]].created_at ] ]
    /\ checkpoint_groups' = Empty
    /\ regular_observations' = << >>
    /\ pc' = "analyze_loop"
    /\ UNCHANGED << toolVars, config, db, normVars, simVars, findVars, analysis_result,
                    resolveVars, redundancy >>

\* checkpoint_groups[signature].append(obs) on a defaultdict(list)
AppendTo(groups, signature, obs) ==
    [ sig \in DOMAIN groups \cup {signature} |->
        IF sig = signature
        THEN (IF sig \in DOMAIN groups THEN groups[sig] ELSE << >>) \o << obs >>
        ELSE groups[sig] ]

\* Classify with the text itself, not its signature, as the key of the group
ClassifyByText(groups, regular, obs) ==
    IF is_checkpoint_observation(obs.content)
    THEN << AppendTo(groups, md5(obs.content), obs), regular >>
    ELSE << groups, Append(regular, obs) >>

\* one iteration of the loop: << checkpoint_groups, regular_observations >>
Classify(groups, regular, obs) ==
    IF is_checkpoint_observation(obs.content)
    THEN << AppendTo(groups, generate_checkpoint_signature(obs.content), obs), regular >>
    ELSE << groups, Append(regular, obs) >>

RECURSIVE SumLens(_, _)
SumLens(groups, sigs) ==
    IF sigs = {} THEN 0
    ELSE LET sig == CHOOSE x \in sigs : TRUE
         IN  Len(groups[sig]) + SumLens(groups, sigs \ {sig})

\* the rows the loop has classified so far
Classified == Len(regular_observations) + SumLens(checkpoint_groups, DOMAIN checkpoint_groups)

AnalyzeObservation ==
    /\ pc = "analyze_loop"
    /\ Classified < Len(observations)
    /\ LET done == Classify(checkpoint_groups, regular_observations,
                            observations[Classified + 1])
       IN  /\ checkpoint_groups' = done[1]
           /\ regular_observations' = done[2]
    /\ UNCHANGED << toolVars, config, db, pc, normVars, simVars, findVars, analysis_result,
                    resolveVars, observations, redundancy >>

\* timestamps.sort()
RECURSIVE Sorted(_)
Sorted(q) ==
    IF q = << >> THEN << >>
    ELSE LET least == Min(Range(q))
             k == Min({ x \in 1..Len(q) : q[x] = least })
         IN  << least >> \o Sorted(SubSeq(q, 1, k - 1) \o SubSeq(q, k + 1, Len(q)))

\* _calculate_frequency taking the timestamps in the order of the group,
\* each gap counted as a length of time
FrequencyUnsorted(group) ==
    IF Len(group) < 2 THEN << "N", "/", "A" >>
    ELSE LET timestamps == [ k \in 1..Len(group) |-> group[k].created_at ]
             intervals == [ k \in 1..(Len(timestamps) - 1) |->
                              IF timestamps[k + 1] >= timestamps[k]
                              THEN (timestamps[k + 1] - timestamps[k]) * 1440
                              ELSE (timestamps[k] - timestamps[k + 1]) * 1440 ]
             tenths == (20 * SumSeq(intervals) + Len(intervals)) \div (2 * Len(intervals))
         IN  << "~" >> \o NumStr(tenths \div 10) \o << "." >> \o NumStr(tenths % 10)
             \o << " ", "m", "i", "n" >>

\* The mean of the gaps between the sorted timestamps, in minutes, as
\* f"~{avg_interval:.1f} min" prints it (to the nearest tenth).  A unit of
\* created_at is a day, 1440 minutes.
_calculate_frequency(group) ==
    IF Len(group) < 2 THEN << "N", "/", "A" >>
    ELSE LET timestamps == Sorted([ k \in 1..Len(group) |-> group[k].created_at ])
             intervals == [ k \in 1..(Len(timestamps) - 1) |->
                              (timestamps[k + 1] - timestamps[k]) * 1440 ]
             tenths == (20 * SumSeq(intervals) + Len(intervals)) \div (2 * Len(intervals))
         IN  << "~" >> \o NumStr(tenths \div 10) \o << "." >> \o NumStr(tenths % 10)
             \o << " ", "m", "i", "n" >>

\* the entry of groups_analysis for a group of two or more
GroupAnalysis(group) ==
    [ count |-> Len(group),
      first_occurrence |-> Min({ group[k].created_at : k \in 1..Len(group) }),
      last_occurrence |-> Max({ group[k].created_at : k \in 1..Len(group) }),
      sample_content |->
          SubSeq(group[1].content, 1, Min({100, Len(group[1].content)}))
          \o << ".", ".", "." >>,
      frequency |-> _calculate_frequency(group) ]

\* the statistics and the dict returned
AnalyzeReturn ==
    /\ pc = "analyze_loop"
    /\ Classified = Len(observations)
    /\ LET sigs == DOMAIN checkpoint_groups
           redundant == { sig \in sigs : Len(checkpoint_groups[sig]) > 1 }
       IN  redundancy' =
              [ total_observations |-> Len(observations),
                checkpoint_observations |-> SumLens(checkpoint_groups, sigs),
                regular_observations |-> Len(regular_observations),
                checkpoint_groups |-> Cardinality(sigs),
                redundant_checkpoints |->
                    SumLens(checkpoint_groups, redundant) - Cardinality(redundant),
                groups_analysis |->
                    [ sig \in redundant |-> GroupAnalysis(checkpoint_groups[sig]) ] ]
    /\ pc' = "checkpoints_analysed"
    /\ UNCHANGED << toolVars, config, db, normVars, simVars, findVars, analysis_result,
                    resolveVars, observations, checkpoint_groups, regular_observations >>

CheckpointNext == AnalyzeRead \/ AnalyzeObservation \/ AnalyzeReturn

SpecCheckpoint == CheckpointInit /\ [][CheckpointNext]_vars

(***************************************************************************)
(* apply_checkpoint_filtering: the analysis, then one transaction that     *)
(* reads each redundant group again by the start of its sample content,    *)
(* inserts a summary row and marks the rows it read.  The transaction's    *)
(* table is a table as db is; an inserted row gets the next id.            *)
(***************************************************************************)
DefaultConsolidationThreshold == 5

consolidation_threshold ==
    Get(config, "consolidation_threshold", DefaultConsolidationThreshold)

\* the texts of the rows apply_checkpoint_filtering runs on: two runs of
\* one checkpoint, a run of the next day, a failure of the first day and
\* a row that is no checkpoint
FilterTexts ==
    { << "C", "H", "E", "C", "K", "P", "O", "I", "N", "T", " ", "M",
         "o", "n", " ", "J", "a", "n", " ", "1", " ", "1", "0", ":",
         "0", "0", ":", "0", "0", " ", "U", "T", "C", " ", "2", "0",
         "2", "4", ":", " ", "a", "u", "t", "o", "-", "s", "y", "n",
         "c", " ", "r", "u", "n", " ", "1" >>,
      << "C", "H", "E", "C", "K", "P", "O", "I", "N", "T", " ", "M",
         "o", "n", " ", "J", "a", "n", " ", "1", " ", "1", "0", ":",
         "0", "0", ":", "0", "0", " ", "U", "T", "C", " ", "2", "0",
         "2", "4", ":", " ", "a", "u", "t", "o", "-", "s", "y", "n",
         "c", " ", "r", "u", "n", " ", "2" >>,
      << "C", "H", "E", "C", "K", "P", "O", "I", "N", "T", " ", "T",
         "u", "e", " ", "J", "a", "n", " ", "2", " ", "1", "0", ":",
         "0", "0", ":", "0", "0", " ", "U", "T", "C", " ", "2", "0",
         "2", "4", ":", " ", "a", "u", "t", "o", "-", "s", "y", "n",
         "c", " ", "r", "u", "n", " ", "1" >>,
      << "C", "H", "E", "C", "K", "P", "O", "I", "N", "T", " ", "M",
         "o", "n", " ", "J", "a", "n", " ", "1", " ", "1", "0", ":",
         "0", "0", ":", "0", "0", " ", "U", "T", "C", " ", "2", "0",
         "2", "4", ":", " ", "a", "u", "t", "o", "-", "s", "y", "n",
         "c", " ", "f", "a", "i", "l", "e", "d" >>,
      << "M", "e", "e", "t", "i", "n", "g", " ", "7" >> }

\* row id was created on day id
FilterStores ==
    UNION { { [ id \in 1..n |-> [ content |-> c[id], created_at |-> id ] ] :
                c \in [ 1..n -> FilterTexts ] } :
            n \in 0..MaxRecords }

FilterInit ==
    /\ config \in {Empty, [ k \in {"consolidation_threshold"} |-> 1 ]}
    /\ db \in FilterStores
    /\ pc = "analyze_start"
    /\ TextIdle
    /\ FindIdle
    /\ analysis_result = NoAnalysis
    /\ ResolveIdle
    /\ CheckpointIdle
    /\ ToolsIdle

\* content LIKE '%' || core || '%'.  No text of the model holds one of
\* LIKE's own wildcards, % and _.
Like(content, core) ==
    \E k \in 0..(Len(content) - Len(core)) :
        SubSeq(content, k + 1, k + Len(core)) = core

\* s[:n]
Prefix(s, n) == SubSeq(s, 1, Min({n, Len(s)}))

\* The rows of the table that are LIKE the core, ORDER BY created_at, as
\* << id, content, created_at >>.  Rows of the same created_at come in id
\* order.
RECURSIVE SelectLike(_, _, _)
SelectLike(table, core, ids) ==
    IF ids = {} THEN << >>
    ELSE LET oldest == Min({ table[id].created_at : id \in ids })
             first == Min({ id \in ids : table[id].created_at = oldest })
         IN  << Row(table, first) >> \o SelectLike(table, core, ids \ {first})

\* strftime('%Y-%m-%d %H:%M')
FormatMinute(t) == SubSeq(FormatTime(t), 1, 16)

\* the first of the members of the least (greatest) created_at
MinByCreatedAt(group) ==
    LET oldest == Min({ group[k].created_at : k \in 1..Len(group) })
    IN  group[Min({ k \in 1..Len(group) : group[k].created_at = oldest })]

MaxOfGroup(group) ==
    LET latest == Max({ group[k].created_at : k \in 1..Len(group) })
    IN  group[Min({ k \in 1..Len(group) : group[k].created_at = latest })]

create_checkpoint_summary(group) ==
    LET first_obs == MinByCreatedAt(group)
        last_obs == MaxOfGroup(group)
    IN  [ type |-> "checkpoint_summary",
          pattern |-> generate_checkpoint_signature(first_obs.content),
          count |-> Len(group),
          first_occurrence |-> first_obs.created_at,
          last_occurrence |-> last_obs.created_at,
          frequency |-> _calculate_frequency(group),
          sample_content |-> first_obs.content,
          consolidated_content |->
              << "S", "U", "M", "M", "A", "R", "Y", ":", " " >> \o NumStr(Len(group))
              \o << " ", "a", "u", "t", "o", "m", "a", "t", "i", "c", " ", "c",
                    "h", "e", "c", "k", "p", "o", "i", "n", "t", "s", " ", "f",
                    "r", "o", "m", " " >>
              \o FormatMinute(first_obs.created_at) \o << " ", "t", "o", " " >>
              \o FormatMinute(last_obs.created_at) \o << " ", "-", " " >>
              \o _calculate_frequency(group) ]

ConsolidatedMarker ==
    << " ", "[", "C", "O", "N", "S", "O", "L", "I", "D", "A", "T",
       "E", "D", "]" >>

RECURSIVE SumContent(_)
SumContent(rows) ==
    IF rows = << >> THEN 0 ELSE Len(Head(rows)[2]) + SumContent(Tail(rows))

\* The signatures of groups_analysis in the order of the dict: the order in
\* which the analysis met the first member of each group.
FirstSeen(sig) ==
    Min({ k \in 1..Len(observations) :
            /\ is_checkpoint_observation(observations[k].content)
            /\ generate_checkpoint_signature(observations[k].content) = sig })

RECURSIVE InDictOrder(_)
InDictOrder(sigs) ==
    IF sigs = {} THEN << >>
    ELSE LET sig == CHOOSE x \in sigs : \A y \in sigs : FirstSeen(x) <= FirstSeen(y)
         IN  << sig >> \o InDictOrder(sigs \ {sig})

\* One iteration of the loop over groups_analysis on the state
\* [table, actions_taken, space_saved] of the transaction.
ConsolidateGroup(state, signature, dry) ==
    LET group_info == redundancy.groups_analysis[signature]
        core == Prefix(group_info.sample_content, 50)
        group_records ==
            SelectLike(state.table, core,
                       { id \in DOMAIN state.table : Like(state.table[id].content, core) })
        group_data == [ k \in 1..Len(group_records) |->
                          [ id |-> group_records[k][1],
                            content |-> group_records[k][2],
                            created_at |-> group_records[k][3] ] ]
        summary == create_checkpoint_summary(group_data)
        record_ids == { group_records[k][1] : k \in 1..Len(group_records) }
        saved == SumContent(group_records) - Len(summary.consolidated_content)
        inserted == Append(state.table,
                           [ content |-> summary.consolidated_content,
                             created_at |-> summary.last_occurrence ])
    IN  IF Len(group_records) > 1
        THEN [ table |->
                  IF dry THEN state.table
                  ELSE [ id \in DOMAIN inserted |->
                           IF id \in record_ids
                           THEN [ inserted[id] EXCEPT
                                    !.content = @ \o ConsolidatedMarker ]
                           ELSE inserted[id] ],
               actions_taken |->
                  Append(state.actions_taken,
                         [ action |-> "consolidate_group",
                           group_signature |-> signature,
                           records_affected |-> Len(group_records),
                           space_saved_chars |-> saved ]),
               space_saved |-> state.space_saved + saved ]
        ELSE state

RECURSIVE ConsolidateAll(_, _, _)
ConsolidateAll(state, signatures, dry) ==
    IF signatures = << >> THEN state
    ELSE ConsolidateAll(ConsolidateGroup(state, Head(signatures), dry),
                        Tail(signatures), dry)

\* fewer redundant checkpoints than the threshold: nothing is done
FilterNoAction ==
    /\ pc = "checkpoints_analysed"
    /\ redundancy.redundant_checkpoints < consolidation_threshold
    /\ filtering' = [ action |-> "no_action_needed", analysis |-> redundancy ]
    /\ pc' = "filtered"
    /\ UNCHANGED << checkpointVars, frequencyVars, monitorVars, config, db, normVars,
                    simVars, findVars, resolveVars >>

\* the loop over the groups, every statement succeeding, and the commit
FilterApply ==
    /\ pc = "checkpoints_analysed"
    /\ redundancy.redundant_checkpoints >= consolidation_threshold
    /\ \E dry \in BOOLEAN :
          LET done == ConsolidateAll(
                          [ table |-> db, actions_taken |-> << >>, space_saved |-> 0 ],
                          InDictOrder(DOMAIN redundancy.groups_analysis), dry)
          IN  /\ db' = done.table
              /\ filtering' =
                    [ action |-> IF dry THEN "dry_run_completed"
                                        ELSE "filtering_applied",
                      actions_taken |-> done.actions_taken,
                      space_saved_chars |-> done.space_saved,
                      redundant_checkpoints_processed |-> Len(done.actions_taken),
                      analysis |-> redundancy ]
    /\ pc' = "filtered"
    /\ UNCHANGED << checkpointVars, frequencyVars, monitorVars, config, normVars,
                    simVars, findVars, resolveVars >>

\* a statement or the commit raises: rollback, the error is returned
FilterFails ==
    /\ pc = "checkpoints_analysed"
    /\ redundancy.redundant_checkpoints >= consolidation_threshold
    /\ filtering' = [ action |-> "error", analysis |-> redundancy ]
    /\ pc' = "filtered"
    /\ UNCHANGED << checkpointVars, frequencyVars, monitorVars, config, db, normVars,
                    simVars, findVars, resolveVars >>

FilterNext == CheckpointNext \/ FilterNoAction \/ FilterApply \/ FilterFails

SpecFilter == FilterInit /\ [][FilterNext]_vars

(***************************************************************************)
(* _calculate_frequency applied to a group: its members in any order, at   *)
(* any days, several of them on the same day or not.                       *)
(***************************************************************************)
FrequencyGroups ==
    UNION { { [ k \in 1..n |->
                  [ id |-> k, content |-> << >>, created_at |-> t[k] ] ] :
                t \in [ 1..n -> 0..MaxDay ] } :
            n \in 0..MaxGroup }

FrequencyInit ==
    /\ config = Empty
    /\ db = Empty
    /\ pc = "frequency_start"
    /\ TextIdle
    /\ FindIdle
    /\ analysis_result = NoAnalysis
    /\ ResolveIdle
    /\ CheckpointIdle
    /\ FilterIdle
    /\ MonitorIdle
    /\ checkpoint_group \in FrequencyGroups
    /\ frequency = None

CalculateFrequency ==
    /\ pc = "frequency_start"
    /\ frequency' = _calculate_frequency(checkpoint_group)
    /\ pc' = "frequency_returned"
    /\ UNCHANGED << checkpointVars, filterVars, monitorVars, checkpoint_group, config,
                    db, normVars, simVars, findVars, resolveVars >>

SpecFrequency == FrequencyInit /\ [][CalculateFrequency]_vars

(***************************************************************************)
(* The effectiveness monitor (src/effectiveness_monitor.py):               *)
(* run_effectiveness_monitoring and the history file it keeps.  The file   *)
(* is missing, unreadable, or holds a list of metrics.  The metrics        *)
(* of a run are its timestamp and the number of rows the store reported;   *)
(* the effectiveness analysis and the recommendations of the report, which *)
(* are computed from them and stored nowhere, are left out.                *)
(***************************************************************************)
\* self.config['monitoring']['history_limit']
history_limit == config.monitoring.history_limit

MonitorConfigs ==
    { [ monitoring |-> [ history_limit |-> n ] ] : n \in 1..MaxLimit }

\* the numbers of rows COUNT(*) reports
RowCounts == {0, 1}

MonitorInit ==
    /\ config \in MonitorConfigs
    /\ db = Empty
    /\ pc = "monitor_ready"
    /\ TextIdle
    /\ FindIdle
    /\ analysis_result = NoAnalysis
    /\ ResolveIdle
    /\ CheckpointIdle
    /\ FilterIdle
    /\ FrequencyIdle
    /\ metrics_history_file \in {NoFile, Unreadable}
    /\ clock = 0
    /\ report = Empty

\* load_metrics_history: [] when the file is missing or is not JSON
load_metrics_history ==
    IF metrics_history_file.kind = "json" THEN metrics_history_file.content ELSE << >>

\* SliceFromEnd keeping the first n entries
SliceFromStart(history, n) == SubSeq(history, 1, Min({n, Len(history)}))

\* history[-n:] of a list, n >= 0: the last n entries, and the whole list
\* when n is 0 (-0 is 0)
SliceFromEnd(history, n) ==
    IF n = 0 THEN history
    ELSE SubSeq(history, Max({1, Len(history) - n + 1}), Len(history))

\* history.append(current_metrics) and the history limit
Extended(history, current_metrics) ==
    LET appended == Append(history, current_metrics)
    IN  IF Len(appended) > history_limit
        THEN SliceFromEnd(appended, history_limit)
        ELSE appended

\* one run: the metrics are collected at the next reading of the clock,
\* the history is loaded, extended, cut and saved, the report returned
MonitorRun ==
    /\ pc \in {"monitor_ready", "monitored"}
    /\ clock < MaxRuns
    /\ clock' = clock + 1
    /\ \E n \in RowCounts :
          LET current_metrics == [ timestamp |-> clock', total_records |-> n ]
              history == Extended(load_metrics_history, current_metrics)
          IN  /\ metrics_history_file' = JsonFile(history)
              /\ report' = [ current_metrics |-> current_metrics,
                             metrics_history_length |-> Len(history) ]
    /\ pc' = "monitored"
    /\ UNCHANGED << checkpointVars, filterVars, frequencyVars, config, db, normVars,
                    simVars, findVars, resolveVars >>

\* a run whose save_metrics_history raises while it writes: open(..., 'w')
\* has emptied the file, what json.dump wrote of the list is not JSON
MonitorSaveFails ==
    /\ pc \in {"monitor_ready", "monitored"}
    /\ clock < MaxRuns
    /\ clock' = clock + 1
    /\ metrics_history_file' = Unreadable
    /\ pc' = "raised"
    /\ UNCHANGED << checkpointVars, filterVars, frequencyVars, config, db, normVars,
                    simVars, findVars, resolveVars, report >>

\* EffectivenessMonitor(config_path): a new monitor on the same reports
\* directory, its configuration holding another history_limit or the same
MonitorRestart ==
    /\ pc \in {"monitored", "raised"}
    /\ config' \in MonitorConfigs
    /\ pc' = "monitor_ready"
    /\ UNCHANGED << checkpointVars, toolVars, db, normVars, simVars, findVars,
                    resolveVars >>

MonitorNext == MonitorRun \/ MonitorSaveFails \/ MonitorRestart

SpecMonitor == MonitorInit /\ [][MonitorNext]_vars

(***************************************************************************)
(* The properties.                                                         *)
(***************************************************************************)
\* the ids of the members of a group, in group order
MemberIds(group) == [k \in 1..Len(group.records) |-> group.records[k][1]]

\* the position of the row of the given id in the rows fetched
PositionOf(id) == CHOOSE k \in 1..Len(records) : records[k][1] = id

\* the rows fetched that are in no group of the analysis
Unclustered ==
    { k \in 1..Len(records) :
        \A x \in 1..Len(analysis.duplicate_groups) :
            records[k][1] \notin Range(MemberIds(analysis.duplicate_groups[x])) }

\* the composite score of two texts reaches the configured threshold
Reaches(a, b) ==
    LET c == Scores(weights, a, b).composite_similarity
    IN  c[1] * 100 >= similarity_threshold * c[2]

\* C1: no record id is in two groups of find_duplicates, nor twice in one
\* group, at any point of the clustering and in the analysis returned.
C1_GroupsDisjoint ==
    /\ \A x, y \in 1..Len(duplicate_groups) :
          x # y => Range(MemberIds(duplicate_groups[x]))
                       \cap Range(MemberIds(duplicate_groups[y])) = {}
    /\ \A x \in 1..Len(duplicate_groups) :
          LET ids == MemberIds(duplicate_groups[x])
          IN  \A m, n \in 1..Len(ids) : m # n => ids[m] # ids[n]
    /\ pc = "analysed" => analysis.duplicate_groups = duplicate_groups

\* C1 witness: an analysis with a group, and a row left out of it whose
\* score against a member of the group reaches the threshold.
C1_Witness ==
    /\ pc = "analysed"
    /\ Len(analysis.duplicate_groups) = 1
    /\ \E k \in Unclustered :
          \E m \in 2..Len(analysis.duplicate_groups[1].records) :
              Reaches(records[k][2], analysis.duplicate_groups[1].records[m][2])

\* C2: every group of the analysis has two members or more; its first member
\* leads it: every other member was fetched after it and scores at least the
\* threshold against it.
C2_GroupsWellFormed ==
    pc = "analysed" =>
        \A x \in 1..Len(analysis.duplicate_groups) :
            LET rows == analysis.duplicate_groups[x].records
            IN  /\ Len(rows) >= 2
                /\ analysis.duplicate_groups[x].count = Len(rows)
                /\ \A m \in 2..Len(rows) :
                      /\ PositionOf(rows[m][1]) > PositionOf(rows[1][1])
                      /\ records[PositionOf(rows[m][1])] = rows[m]
                      /\ Reaches(rows[1][2], rows[m][2])

\* C2 witness: an analysis with a group whose member does not follow its
\* leader directly, the row between them having led no group.
C2_Witness ==
    /\ pc = "analysed"
    /\ Len(analysis.duplicate_groups) = 1
    /\ Len(records) = 3
    /\ MemberIds(analysis.duplicate_groups[1]) = << records[1][1], records[3][1] >>
    /\ Unclustered = {2}

\* C3: under keep_latest the action of every group keeps the member of the
\* greatest created_at, the first such member in group order, and marks
\* exactly the other members.
C3_KeepLatestKeepsNewest ==
    pc = "returned" /\ strategy = "keep_latest" /\ result.action # "error" =>
        \A x \in 1..Len(analysis_result.duplicate_groups) :
            LET rows == analysis_result.duplicate_groups[x].records
                act == result.resolution_actions[x]
            IN  /\ act.action = "keep_latest"
                /\ \E m \in 1..Len(rows) :
                      /\ rows[m][1] = act.kept_id
                      /\ \A n \in 1..Len(rows) : rows[n][3] <= rows[m][3]
                      /\ \A n \in 1..(m - 1) : rows[n][3] < rows[m][3]
                /\ Len(act.marked_ids) = Len(rows) - 1
                /\ Range(act.marked_ids) = Range(Ids(rows)) \ {act.kept_id}

\* C3 witness: a keep_latest result for a group whose newest member is not
\* its first and shares its creation time with a later member.
C3_Witness ==
    /\ pc = "returned"
    /\ strategy = "keep_latest"
    /\ result.action = "resolution_applied"
    /\ LET rows == analysis_result.duplicate_groups[1].records
       IN  /\ Len(rows) = 3
           /\ rows[1][3] < rows[2][3]
           /\ rows[2][3] = rows[3][3]
           /\ result.resolution_actions[1].kept_id = rows[2][1]

\* C4: a batch that is not a dry run and ends in an error leaves the table
\* as it was when resolve_duplicates was called, keeps no write, and has
\* committed nothing.
C4_ErrorRollsBack ==
    pc = "returned" /\ ~dry_run /\ result.action = "error" =>
        /\ db = db0
        /\ pending = Empty
        /\ commits = 0

\* C4 witness: an error in the second group of a batch, after the
\* statements of the first group were executed.
C4_Witness ==
    /\ pc = "returned"
    /\ ~dry_run
    /\ result.action = "error"
    /\ g = 2
    /\ updates > 2
    /\ db = db0

\* C5: a dry run, while it runs and after it returned, has executed no
\* UPDATE, committed nothing and left every row of the table as it was.
C5_DryRunMutatesNothing ==
    pc \in {"resolve_loop", "returned"} /\ dry_run =>
        /\ updates = 0
        /\ commits = 0
        /\ pending = Empty
        /\ db = db0

\* C5 witness: a completed dry run of two groups under flag_only.
C5_Witness ==
    /\ pc = "returned"
    /\ dry_run
    /\ strategy = "flag_only"
    /\ result.action = "dry_run_completed"
    /\ Len(result.resolution_actions) = 2

\* C6: calculate_similarity(a, b) equals calculate_similarity(b, a) on the
\* four metrics and on the composite.
C6_SimilaritySymmetric ==
    pc = "scored" => similarity = calculate_similarity(text2, text1)

\* C7: calculate_similarity(t, t) has every metric and the composite equal
\* to 1, for every text t, the empty text included.
C7_SelfSimilarityIsOne ==
    pc = "scored" /\ text1 = text2 =>
        /\ similarity.exact_match = One
        /\ similarity.sequence_similarity = One
        /\ similarity.levenshtein_similarity = One
        /\ similarity.jaccard_similarity = One
        /\ similarity.composite_similarity = One

\* C7 witness: the empty text scored against itself.
C7_Witness ==
    /\ pc = "scored"
    /\ text1 = << >>
    /\ text2 = << >>
    /\ similarity.composite_similarity = One

\* C8: normalize_text is idempotent: normalising what it returned returns
\* it unchanged.
C8_NormalizeIdempotent ==
    pc = "normalized" => normalize_text(norm1) = norm1

\* C9: two texts that differ only inside a substring matching one of the
\* four volatile patterns (date, time, explicit id, hash number) normalise
\* to the same string.
C9_VolatileRemoved ==
    pc = "normalized" => norm1 = norm2

\* C10: with similarity_threshold = 1.0 every member of a group has the
\* normalised text of the group's leader.
C10_ThresholdOneExactOnly ==
    pc = "analysed" /\ similarity_threshold = 100 =>
        \A x \in 1..Len(analysis.duplicate_groups) :
            LET rows == analysis.duplicate_groups[x].records
            IN  \A m \in 2..Len(rows) :
                    normalize_text(rows[m][2]) = normalize_text(rows[1][2])

\* C10 witness: at threshold 1.0, a group of two rows whose texts differ
\* and normalise to the same string, beside a row of another text.
C10_Witness ==
    /\ pc = "analysed"
    /\ similarity_threshold = 100
    /\ Len(analysis.duplicate_groups) = 1
    /\ LET rows == analysis.duplicate_groups[1].records
       IN  /\ Len(rows) = 2
           /\ rows[1][2] # rows[2][2]
    /\ Unclustered # {}

\* a score is a fraction between 0 and 1
IsScore(x) == x[2] > 0 /\ x[1] >= 0 /\ x[1] <= x[2]

\* C11: when both normalised texts are empty, levenshtein_similarity and
\* jaccard_similarity are exactly 1; when exactly one of the two word sets
\* is empty, jaccard_similarity is exactly 0; and every pair of texts,
\* empty ones included, gets five scores between 0 and 1.
C11_EmptyTextFallbacks ==
    pc = "scored" =>
        LET n1 == normalize_text(text1)
            n2 == normalize_text(text2)
        IN  /\ n1 = << >> /\ n2 = << >> =>
                  /\ similarity.levenshtein_similarity = One
                  /\ similarity.jaccard_similarity = One
            /\ (Words(n1) = {}) # (Words(n2) = {}) =>
                  similarity.jaccard_similarity = Zero
            /\ \A m \in DOMAIN similarity : IsScore(similarity[m])

\* C11 witness: a text of whitespace only, which normalises to the empty
\* text, scored against a text with a word.
C11_Witness ==
    /\ pc = "scored"
    /\ text1 = << " ", " " >>
    /\ text2 = << "a" >>
    /\ similarity.jaccard_similarity = Zero
    /\ similarity.levenshtein_similarity = Zero

\* C12: resolve_duplicates called on an analysis with groups and a strategy
\* other than keep_latest, merge and flag_only ends in an error: it never
\* returns resolution_applied or dry_run_completed.
C12_UnknownStrategyIsError ==
    pc = "returned" /\ strategy \notin {"keep_latest", "merge", "flag_only"}
                    /\ analysis_result.duplicate_groups # << >> =>
        result.action = "error"

\* C13: no failure of the store leaves resolve_duplicates as an exception:
\* every call that has ended has returned a result, and a failed one has
\* returned action = 'error'.
C13_FailuresAreReturned ==
    pc \in {"returned", "raised"} =>
        /\ pc = "returned"
        /\ result.action \in {"no_duplicates_found", "resolution_applied",
                              "dry_run_completed", "error"}

\* the text sub occurs in the text s
Contains(s, sub) ==
    \E k \in 0..(Len(s) - Len(sub)) : SubSeq(s, k + 1, k + Len(sub)) = sub

\* C14: after a merge that was applied, the primary of every group (its
\* member of the greatest created_at) holds its text followed by an
\* annotation that contains the content and the timestamp of every
\* secondary, and every secondary holds its text followed by the tag of
\* the primary's id.
C14_MergeKeepsSecondaries ==
    pc = "returned" /\ strategy = "merge" /\ result.action = "resolution_applied" =>
        \A x \in 1..Len(analysis_result.duplicate_groups) :
            LET rows == analysis_result.duplicate_groups[x].records
                primary == MaxByCreatedAt(rows)
                secondaries == Others(rows, primary)
                stored == db[primary[1]].content
                annotation == SubSeq(stored, Len(primary[2]) + 1, Len(stored))
            IN  /\ SubSeq(stored, 1, Len(primary[2])) = primary[2]
                /\ \A k \in 1..Len(secondaries) :
                      /\ Contains(annotation, secondaries[k][2])
                      /\ Contains(annotation, FormatTime(secondaries[k][3]))
                      /\ db[secondaries[k][1]].content
                            = db0[secondaries[k][1]].content \o MergedMarker(primary[1])

\* C15: find_duplicates gives every group its 0-based position in
\* duplicate_groups as group_id, and a flag_only resolution that was
\* applied has tagged every member of every group, the first member
\* included, with the marker of that position.
C15_FlagOnlyTagsEveryMember ==
    /\ \A x \in 1..Len(duplicate_groups) : duplicate_groups[x].group_id = x - 1
    /\ pc = "returned" /\ strategy = "flag_only" /\ result.action = "resolution_applied" =>
          \A x \in 1..Len(analysis_result.duplicate_groups) :
              LET group == analysis_result.duplicate_groups[x]
                  act == result.resolution_actions[x]
              IN  /\ group.group_id = x - 1
                  /\ act.action = "flag_only"
                  /\ act.group_id = x - 1
                  /\ act.flagged_ids = MemberIds(group)
                  /\ \A m \in 1..Len(group.records) :
                        db[group.records[m][1]].content
                            = db0[group.records[m][1]].content \o GroupMarker(x - 1)

\* C15 witness: a flag_only resolution applied to the two groups that
\* find_duplicates returned, the leader of the second group tagged with 1.
C15_Witness ==
    /\ pc = "returned"
    /\ strategy = "flag_only"
    /\ result.action = "resolution_applied"
    /\ Len(analysis.duplicate_groups) = 2
    /\ analysis_result = analysis
    /\ LET leader == analysis.duplicate_groups[2].records[1]
       IN  db[leader[1]].content = leader[2] \o GroupMarker(1)

\* C16: the calls of resolve_duplicates on one analysis that used the same
\* strategy returned the same resolution_actions, whether they were dry
\* runs or not and whatever the calls before them wrote to the table.
C16_PlanningIdempotent ==
    \A x, y \in 1..Len(calls) :
        calls[x].strategy = calls[y].strategy =>
            calls[x].resolution_actions = calls[y].resolution_actions

\* C16 witness: a merge that was applied, then a dry run of merge on the
\* same analysis, both with the same plan for two groups.
C16_Witness ==
    /\ Len(calls) = 2
    /\ calls[1].strategy = "merge" /\ ~calls[1].dry_run
    /\ calls[2].strategy = "merge" /\ calls[2].dry_run
    /\ Len(calls[1].resolution_actions) = 2
    /\ calls[1].resolution_actions = calls[2].resolution_actions
    /\ \E id \in DOMAIN db : db[id].content # ContentFor(id)

\* the signatures under which the row of the given id is grouped
GroupsHolding(id) ==
    { sig \in DOMAIN checkpoint_groups :
        \E k \in 1..Len(checkpoint_groups[sig]) : checkpoint_groups[sig][k].id = id }

\* C17: after analyze_checkpoint_redundancy, two rows recognised as
\* checkpoints are in the same group exactly when their signatures are
\* equal (each is in one group), and a row that matches no checkpoint
\* pattern is in no group and is in regular_observations.
C17_GroupedBySignature ==
    pc = "checkpoints_analysed" =>
        \A a, b \in 1..Len(observations) :
            LET oa == observations[a]
                ob == observations[b]
            IN  /\ is_checkpoint_observation(oa.content)
                     /\ is_checkpoint_observation(ob.content) =>
                       /\ Cardinality(GroupsHolding(oa.id)) = 1
                       /\ (GroupsHolding(oa.id) = GroupsHolding(ob.id))
                            <=> (generate_checkpoint_signature(oa.content)
                                   = generate_checkpoint_signature(ob.content))
                /\ ~is_checkpoint_observation(oa.content) =>
                       /\ GroupsHolding(oa.id) = {}
                       /\ \E k \in 1..Len(regular_observations) :
                              regular_observations[k] = oa

\* C17 witness: two checkpoints of different dates in one group, a third
\* of another spelling in a group of its own, none of them regular.
C17_Witness ==
    /\ pc = "checkpoints_analysed"
    /\ Len(observations) = 3
    /\ regular_observations = << >>
    /\ Cardinality(DOMAIN checkpoint_groups) = 2
    /\ \E sig \in DOMAIN checkpoint_groups :
          /\ Len(checkpoint_groups[sig]) = 2
          /\ checkpoint_groups[sig][1].content # checkpoint_groups[sig][2].content

\* the weights the configuration contract documents: each of the four
\* weights that is configured, the default of each that is missing
DocumentedWeights ==
    [ k \in DOMAIN DefaultWeights |->
        IF "algorithm_weights" \in DOMAIN config /\ k \in DOMAIN config.algorithm_weights
        THEN config.algorithm_weights[k]
        ELSE DefaultWeights[k] ]

\* C18: whichever optional keys the configuration lacks, the threshold and
\* each of the four weights included, calculate_similarity returns the
\* scores computed with the default in place of each missing key.
C18_MissingKeysFallBack ==
    /\ "similarity_threshold" \notin DOMAIN config => similarity_threshold = DefaultThreshold
    /\ pc \in {"scored", "raised"} =>
          /\ pc = "scored"
          /\ similarity = Scores(DocumentedWeights, text1, text2)

\* the rows fetched that joined no group as a member: the leaders of the
\* groups and the rows that led a scan and found no duplicate
Heads ==
    { q \in 1..Len(records) :
        \A y \in 1..Len(analysis.duplicate_groups) :
            \A n \in 2..Len(analysis.duplicate_groups[y].records) :
                analysis.duplicate_groups[y].records[n][1] # records[q][1] }

\* C19: a member of a group is bound to the first leader, in fetch order,
\* whose score against it reaches the threshold; it is in no other group
\* and leads none.
C19_BoundToFirstLeader ==
    pc = "analysed" =>
        \A x \in 1..Len(analysis.duplicate_groups) :
            LET rows == analysis.duplicate_groups[x].records
            IN  \A m \in 2..Len(rows) :
                    /\ \A q \in Heads :
                          q < PositionOf(rows[m][1]) /\ Reaches(records[q][2], rows[m][2])
                              => q >= PositionOf(rows[1][1])
                    /\ \A y \in 1..Len(analysis.duplicate_groups) :
                          \A n \in 1..Len(analysis.duplicate_groups[y].records) :
                              analysis.duplicate_groups[y].records[n][1] = rows[m][1]
                                  => y = x /\ n = m

\* C19 witness: a member whose score reaches the threshold against its
\* leader and against a later row that led a scan before the member's turn.
C19_Witness ==
    /\ pc = "analysed"
    /\ \E x \in 1..Len(analysis.duplicate_groups) :
          LET rows == analysis.duplicate_groups[x].records
          IN  \E m \in 2..Len(rows) :
                  \E q \in Heads :
                      /\ PositionOf(rows[1][1]) < q
                      /\ q < PositionOf(rows[m][1])
                      /\ Reaches(records[q][2], rows[m][2])

\* the groups of the clustering loop run from position p on, on the rows
\* fetched and nothing else
RECURSIVE ClusterFrom(_, _, _)
ClusterFrom(p, groups, processed) ==
    IF p > Len(records) THEN groups
    ELSE IF records[p][1] \in processed THEN ClusterFrom(p + 1, groups, processed)
    ELSE LET scan == Scan(records[p][2], p + 1, << records[p] >>, processed)
         IN  ClusterFrom(p + 1, Emit(groups, scan[1]), scan[2] \cup {records[p][1]})

\* C20: the analysis find_duplicates returns is the clustering of the rows
\* of its one read: whatever other agents wrote to the table while the
\* loop ran, the groups and the statistics are those of the rows fetched.
C20_GroupsOfTheSnapshot ==
    pc = "analysed" =>
        /\ analysis = Analysis(Len(records), ClusterFrom(1, << >>, {}))
        /\ \A x \in 1..Len(analysis.duplicate_groups) :
              \A m \in 1..Len(analysis.duplicate_groups[x].records) :
                  \E k \in 1..Len(records) :
                      records[k] = analysis.duplicate_groups[x].records[m]

\* C20 witness: an analysis with a group one of whose members had its text
\* changed in the table, after the read, to a text that the leader's score
\* does not reach.
C20_Witness ==
    /\ pc = "analysed"
    /\ writes > 0
    /\ \E x \in 1..Len(analysis.duplicate_groups) :
          LET rows == analysis.duplicate_groups[x].records
          IN  \E m \in 2..Len(rows) :
                  /\ db[rows[m][1]].content # rows[m][2]
                  /\ ~Reaches(rows[1][2], db[rows[m][1]].content)

\* C25: when find_duplicates has finished, of any two rows left in no
\* group the earlier one in fetch order, scored as leader against the
\* later one, is below the threshold.
C25_NoMatchLeftUngrouped ==
    pc = "analysed" =>
        \A p, q \in Unclustered :
            p < q => ~Reaches(records[p][2], records[q][2])

\* C25 witness: an analysis that leaves in no group two rows that share a
\* word, the score of the earlier against the later being positive.
C25_Witness ==
    /\ pc = "analysed"
    /\ \E p, q \in Unclustered :
          /\ p < q
          /\ Scores(weights, records[p][2], records[q][2]).composite_similarity[1] > 0

\* the members of the groups, counted on their rows
RECURSIVE Members(_)
Members(groups) ==
    IF groups = << >> THEN 0 ELSE Len(Head(groups).records) + Members(Tail(groups))

\* C27: in every result of find_duplicates duplicate_records is the sum
\* of the sizes of the groups and at most total_records, duplicate_rate is
\* between 0 and 100, and it is 0 when no row was fetched.
C27_StatisticsConsistent ==
    pc = "analysed" =>
        /\ analysis.total_records = Len(records)
        /\ analysis.duplicate_records = Members(analysis.duplicate_groups)
        /\ analysis.duplicate_records <= analysis.total_records
        /\ analysis.duplicate_rate[2] > 0
        /\ analysis.duplicate_rate[1] >= 0
        /\ analysis.duplicate_rate[1] <= 100 * analysis.duplicate_rate[2]
        /\ analysis.duplicate_rate[1] * analysis.total_records
              = 100 * analysis.duplicate_records * analysis.duplicate_rate[2]
        /\ analysis.total_records = 0 => analysis.duplicate_rate = Zero

\* C27 witness: a result in which every row fetched is in a group (the
\* rate is 100), and a result on an empty table.
C27_Witness ==
    /\ pc = "analysed"
    /\ analysis.total_records > 0
    /\ analysis.duplicate_records = analysis.total_records

C27_WitnessEmpty == pc = "analysed" /\ analysis.total_records = 0

\* C24: on the groups find_duplicates made from rows fetched newest first,
\* keep_latest keeps and merge makes primary the first row of each group,
\* its leader, also when other members have the leader's created_at; every
\* other member is marked or secondary.
C24_PrimaryIsTheLeader ==
    pc = "returned" /\ strategy \in {"keep_latest", "merge"}
        /\ result.action \in {"resolution_applied", "dry_run_completed"} =>
        /\ Len(result.resolution_actions) = Len(analysis_result.duplicate_groups)
        /\ \A k \in 1..Len(analysis_result.duplicate_groups) :
              LET rows == analysis_result.duplicate_groups[k].records
                  act == result.resolution_actions[k]
              IN  IF strategy = "keep_latest"
                  THEN /\ act.kept_id = rows[1][1]
                       /\ act.marked_ids = Ids(Tail(rows))
                  ELSE /\ act.primary_id = rows[1][1]
                       /\ act.secondary_ids = Ids(Tail(rows))

\* C24 witness: a resolution under keep_latest or merge of a group in which
\* a member was created at the same time as the leader.
C24_Witness ==
    /\ pc = "returned"
    /\ strategy \in {"keep_latest", "merge"}
    /\ result.action = "resolution_applied"
    /\ \E k \in 1..Len(analysis_result.duplicate_groups) :
          LET rows == analysis_result.duplicate_groups[k].records
          IN  \E m \in 2..Len(rows) : rows[m][3] = rows[1][3]

\* the row of the given id among the rows of a group
RowOf(rows, id) == rows[CHOOSE k \in 1..Len(rows) : rows[k][1] = id]

\* C26: after a merge that committed, the stored content of each primary
\* is the text find_duplicates read for it followed by the merge
\* annotation, whatever the row held when resolve_duplicates ran; the
\* markers of keep_latest, of flag_only and of merge's secondaries are
\* appended to what the row held when resolve_duplicates ran.
C26_MergeWritesAnalysedText ==
    pc = "returned" /\ result.action = "resolution_applied" =>
        \A k \in 1..Len(result.resolution_actions) :
            LET rows == analysis_result.duplicate_groups[k].records
                act == result.resolution_actions[k]
            IN  CASE strategy = "merge" ->
                        LET primary == RowOf(rows, act.primary_id)
                        IN  /\ \E now \in ClockReadings :
                                  db[act.primary_id].content
                                      = _merge_content(primary, Others(rows, primary), now)
                            /\ SubSeq(db[act.primary_id].content, 1, Len(primary[2]))
                                  = primary[2]
                            /\ Len(db[act.primary_id].content) > Len(primary[2])
                            /\ \A n \in 1..Len(act.secondary_ids) :
                                  db[act.secondary_ids[n]].content
                                      = db0[act.secondary_ids[n]].content
                                            \o MergedMarker(act.primary_id)
                  [] strategy = "keep_latest" ->
                        /\ db[act.kept_id].content = db0[act.kept_id].content
                        /\ \A n \in 1..Len(act.marked_ids) :
                              db[act.marked_ids[n]].content
                                  = db0[act.marked_ids[n]].content \o KeptMarker(act.kept_id)
                  [] strategy = "flag_only" ->
                        \A n \in 1..Len(act.flagged_ids) :
                            db[act.flagged_ids[n]].content
                                = db0[act.flagged_ids[n]].content \o GroupMarker(act.group_id)
                  [] OTHER -> TRUE

\* C26 witness: a merge committed on a primary whose stored text was
\* replaced between the analysis and the resolution.
C26_Witness ==
    /\ pc = "returned"
    /\ result.action = "resolution_applied"
    /\ strategy = "merge"
    /\ writes > 0
    /\ \E k \in 1..Len(result.resolution_actions) :
          LET rows == analysis_result.duplicate_groups[k].records
              act == result.resolution_actions[k]
          IN  db0[act.primary_id].content # RowOf(rows, act.primary_id)[2]

\* C22: a resolution that commits after the same resolution (same groups,
\* same strategy, not a dry run) has committed leaves the stored content
\* of every row as it was: no row gets the same marker a second time.
C22_ExecutionIdempotent ==
    [][ /\ pc = "resolve_loop"
        /\ pc' = "returned"
        /\ ~dry_run
        /\ calls # << >>
        /\ calls[Len(calls)].strategy = strategy
        /\ ~calls[Len(calls)].dry_run
        => db' = db ]_vars

\* a count of minutes num / den as f"~{x:.1f} min" prints it
Minutes(num, den) ==
    LET tenths == (20 * num + den) \div (2 * den)
    IN  << "~" >> \o NumStr(tenths \div 10) \o << "." >> \o NumStr(tenths % 10)
        \o << " ", "m", "i", "n" >>

\* the group with its members in the order p
Reordered(group, p) == [ k \in 1..Len(group) |-> group[p[k]] ]

Arrangements(n) ==
    { p \in [1..n -> 1..n] : \A x, y \in 1..n : x # y => p[x] # p[y] }

\* C23: the frequency of a group of two or more is the mean gap between
\* its sorted timestamps in minutes, (max - min) / (n - 1), whatever the
\* order of its members: 1440 minutes for two members a day apart.  The
\* frequency of a smaller group is 'N/A'.
C23_FrequencyIsMeanGap ==
    pc = "frequency_returned" =>
        LET n == Len(checkpoint_group)
            days == { checkpoint_group[k].created_at : k \in 1..n }
        IN  IF n < 2 THEN frequency = << "N", "/", "A" >>
            ELSE /\ frequency = Minutes((Max(days) - Min(days)) * 1440, n - 1)
                 /\ \A p \in Arrangements(n) :
                       _calculate_frequency(Reordered(checkpoint_group, p)) = frequency
                 /\ n = 2 /\ Max(days) = Min(days) + 1 =>
                       frequency = << "~", "1", "4", "4", "0", ".", "0", " ", "m", "i", "n" >>

\* C23 witness: the frequency of a group of three or more whose members
\* are not in the order of their timestamps and whose gaps differ.
C23_Witness ==
    /\ pc = "frequency_returned"
    /\ Len(checkpoint_group) >= 3
    /\ checkpoint_group[1].created_at > checkpoint_group[2].created_at
    /\ checkpoint_group[3].created_at > checkpoint_group[1].created_at + 1
    /\ frequency # << "N", "/", "A" >>

\* the signatures of the groups of two or more that hold the row of this id
RedundantGroupsOf(id) ==
    { sig \in DOMAIN redundancy.groups_analysis :
        \E m \in 1..Len(checkpoint_groups[sig]) : checkpoint_groups[sig][m].id = id }

\* C21: a run of apply_checkpoint_filtering consolidates, for each group
\* of two or more of its analysis, the rows of that group and no other: it
\* reports one action per group with the size of the group as
\* records_affected, and when it is not a dry run the rows it marks are
\* the members of those groups, each marked once.
C21_ConsolidatesTheAnalysedGroups ==
    pc = "filtered" /\ filtering.action \in {"filtering_applied", "dry_run_completed"} =>
        /\ Len(filtering.actions_taken) = Cardinality(DOMAIN redundancy.groups_analysis)
        /\ \A k \in 1..Len(filtering.actions_taken) :
              LET act == filtering.actions_taken[k]
              IN  /\ act.group_signature \in DOMAIN redundancy.groups_analysis
                  /\ act.records_affected = Len(checkpoint_groups[act.group_signature])
        /\ filtering.action = "filtering_applied" =>
              \A k \in 1..Len(observations) :
                  LET obs == observations[k]
                  IN  db[obs.id].content =
                          IF RedundantGroupsOf(obs.id) # {}
                          THEN obs.content \o ConsolidatedMarker
                          ELSE obs.content

\* C28: after a run of run_effectiveness_monitoring the saved history has
\* at most history_limit entries, its last entry is the metrics of that
\* run, and its entries are the most recent runs in the order they were
\* made, the runs before them dropped.
C28_HistoryIsTheLatestRuns ==
    pc = "monitored" =>
        LET history == metrics_history_file.content
        IN  /\ metrics_history_file.kind = "json"
            /\ Len(history) >= 1
            /\ Len(history) <= history_limit
            /\ history[Len(history)] = report.current_metrics
            /\ report.metrics_history_length = Len(history)
            /\ \A k \in 1..Len(history) :
                  history[k].timestamp = clock - Len(history) + k

\* C28 witness: a run that found the history full and dropped its oldest
\* entry, the limit being two or more.
C28_Witness ==
    /\ pc = "monitored"
    /\ history_limit >= 2
    /\ Len(metrics_history_file.content) = history_limit
    /\ metrics_history_file.content[1].timestamp > 1

=============================================================================
